---- MODULE Spec2Model ----
(***************************************************************************)
(* Model of the mp-cleaner backend: the MercadoPago CSV parser, the        *)
(* record store (SQLite table `records`) and RecordService, whose          *)
(* ImportRecords reconciles a parsed batch against the store.              *)
(*                                                                         *)
(* Conventions                                                             *)
(*  - A Go string is a sequence of symbols.  A symbol is one character     *)
(*    ("2", "-", ",", " ") or, for text the code only copies or compares   *)
(*    as a whole, one word ("Transferencia enviada", "Area").              *)
(*  - A Go pointer or error is an option: <<>> is nil, <<v>> is v.         *)
(*  - A float64 amount is held exactly, as an integer count of            *)
(*    hundredths; the cells of the model carry at most two decimals.       *)
(*  - A time.Time at midnight UTC is a record [y, m, d].                   *)
(*  - Go indices are 0-based, the sequences here 1-based: column c of the  *)
(*    code is position c + 1, "not found" (-1) is 0.                       *)
(***************************************************************************)
EXTENDS Integers, Sequences, FiniteSets, TLC

\* ------------------------------------------------------------------ strings

Digits == {"0", "1", "2", "3", "4", "5", "6", "7", "8", "9"}

DigitVal(c) ==
  CASE c = "0" -> 0 [] c = "1" -> 1 [] c = "2" -> 2 [] c = "3" -> 3
    [] c = "4" -> 4 [] c = "5" -> 5 [] c = "6" -> 6 [] c = "7" -> 7
    [] c = "8" -> 8 [] c = "9" -> 9

AllDigits(s) == \A i \in 1..Len(s) : s[i] \in Digits

RECURSIVE NatVal(_)
\* the number a sequence of digits writes (0 for the empty sequence)
NatVal(s) ==
  IF s = <<>> THEN 0
  ELSE 10 * NatVal(SubSeq(s, 1, Len(s) - 1)) + DigitVal(s[Len(s)])

RECURSIVE TrimLeft(_)
TrimLeft(s) == IF s # <<>> /\ Head(s) = " " THEN TrimLeft(Tail(s)) ELSE s

RECURSIVE TrimRight(_)
TrimRight(s) ==
  IF s # <<>> /\ s[Len(s)] = " " THEN TrimRight(SubSeq(s, 1, Len(s) - 1)) ELSE s

\* strings.TrimSpace
TrimSpace(s) == TrimRight(TrimLeft(s))

RECURSIVE ReplaceAll(_, _, _)
\* strings.ReplaceAll(s, old, new) for a one-symbol old
ReplaceAll(s, old, new) ==
  IF s = <<>> THEN <<>>
  ELSE (IF Head(s) = old THEN new ELSE <<Head(s)>>) \o ReplaceAll(Tail(s), old, new)

\* strings.HasPrefix
HasPrefix(s, p) == Len(s) >= Len(p) /\ SubSeq(s, 1, Len(p)) = p

\* strings.TrimPrefix
TrimPrefix(s, p) == IF HasPrefix(s, p) THEN SubSeq(s, Len(p) + 1, Len(s)) ELSE s

\* strings.Index(s, c) for a one-symbol c: the first position, 0 when absent
Index(s, c) ==
  IF \E i \in 1..Len(s) : s[i] = c
  THEN CHOOSE i \in 1..Len(s) : s[i] = c /\ \A j \in 1..(i - 1) : s[j] # c
  ELSE 0

\* strings.Contains(s, c) for a one-symbol c
Contains(s, c) == Index(s, c) # 0

\* strings.ToUpper on the header names of the model
ToUpperSym(c) ==
  CASE c = "release_date" -> "RELEASE_DATE"
    [] c = "transaction_type" -> "TRANSACTION_TYPE"
    [] c = "reference_id" -> "REFERENCE_ID"
    [] c = "transaction_net_amount" -> "TRANSACTION_NET_AMOUNT"
    [] OTHER -> c

ToUpper(s) == [i \in 1..Len(s) |-> ToUpperSym(s[i])]

\* strconv.ParseFloat(s, 64) on decimal notation: an optional sign, digits
\* with at most one ".", at least one digit.  val is in hundredths.
ParseFloat(s) ==
  LET signed == s # <<>> /\ Head(s) \in {"+", "-"}
      body == IF signed THEN Tail(s) ELSE s
      dot == Index(body, ".")
      ip == IF dot = 0 THEN body ELSE SubSeq(body, 1, dot - 1)
      fp == IF dot = 0 THEN <<>> ELSE SubSeq(body, dot + 1, Len(body))
      fp2 == SubSeq(fp \o <<"0", "0">>, 1, 2)
      ok == /\ AllDigits(ip) /\ AllDigits(fp)
            /\ Len(ip) + Len(fp) > 0
            /\ Len(fp) <= 2
      mag == 100 * NatVal(ip) + NatVal(fp2)
  IN IF ok
     THEN [ok |-> TRUE, val |-> IF signed /\ Head(s) = "-" THEN 0 - mag ELSE mag]
     ELSE [ok |-> FALSE, val |-> 0]

\* ------------------------------------------------------------------ dates

ZeroTime == [y |-> 1, m |-> 1, d |-> 1]

IsZero(t) == t = ZeroTime

IsLeap(y) == y % 4 = 0 /\ (y % 100 # 0 \/ y % 400 = 0)

DaysIn(m, y) ==
  CASE m = 2 -> IF IsLeap(y) THEN 29 ELSE 28
    [] m \in {4, 6, 9, 11} -> 30
    [] OTHER -> 31

\* AddDay with a February of 28 days in every year
AddDayNoLeap(t) ==
  IF t.d < (IF t.m = 2 THEN 28 ELSE DaysIn(t.m, t.y)) THEN [t EXCEPT !.d = t.d + 1]
  ELSE IF t.m < 12 THEN [y |-> t.y, m |-> t.m + 1, d |-> 1]
  ELSE [y |-> t.y + 1, m |-> 1, d |-> 1]

\* time.Time.AddDate(0, 0, 1)
AddDay(t) ==
  IF t.d < DaysIn(t.m, t.y) THEN [t EXCEPT !.d = t.d + 1]
  ELSE IF t.m < 12 THEN [y |-> t.y, m |-> t.m + 1, d |-> 1]
  ELSE [y |-> t.y + 1, m |-> 1, d |-> 1]

\* time.Parse with a layout "02<sep>01<sep>2006": two digits, sep, two
\* digits, sep, four digits, no extra text, and a day that exists.
TimeParseDMY(s, sep) ==
  LET shape == /\ Len(s) = 10
               /\ AllDigits(SubSeq(s, 1, 2)) /\ s[3] = sep
               /\ AllDigits(SubSeq(s, 4, 5)) /\ s[6] = sep
               /\ AllDigits(SubSeq(s, 7, 10))
      d == NatVal(SubSeq(s, 1, 2))
      m == NatVal(SubSeq(s, 4, 5))
      y == NatVal(SubSeq(s, 7, 10))
  IN IF shape /\ m \in 1..12 /\ d >= 1 /\ d <= DaysIn(m, y)
     THEN [ok |-> TRUE, t |-> [y |-> y, m |-> m, d |-> d]]
     ELSE [ok |-> FALSE, t |-> ZeroTime]

\* ------------------------------------------------------------------ records

CurrencyARS == "ARS"

CurrencyUSD == "USD"

\* domain.Record as a parser builds it (ID, Category and CreatedAt are left
\* at their zero values by both parsers)
NewRecord(date, description, amount, currency, accountID) ==
  [ID |-> 0, Date |-> date, Description |-> description, Amount |-> amount,
   Currency |-> currency, AccountID |-> accountID, CreatedAt |-> ZeroTime]

\* Record.Validate: <<>> when valid, else the error
Validate(r) ==
  IF IsZero(r.Date) THEN <<"date is required">>
  ELSE IF r.Description = <<>> THEN <<"description is required">>
  ELSE IF r.Amount = 0 THEN <<"amount cannot be zero">>
  ELSE IF r.Currency # CurrencyARS /\ r.Currency # CurrencyUSD THEN <<"invalid currency">>
  ELSE <<>>

\* ------------------------------------------------------------------ CSV reader

\* encoding/csv Reader.ReadAll on a content already cut into lines and
\* fields: an empty line (<<>>) yields no record, and every record must have
\* as many fields as the first one (FieldsPerRecord = 0), else ReadAll fails.
csvReadAll(lines) ==
  LET recs == SelectSeq(lines, LAMBDA l : l # <<>>)
  IN IF \E i \in 1..Len(recs) : Len(recs[i]) # Len(recs[1])
     THEN [ok |-> FALSE, rows |-> <<>>]
     ELSE [ok |-> TRUE, rows |-> recs]

\* ------------------------------------------------------------------ MercadoPago parser

\* parseArgentineAmount rounding to the nearest integer
parseArgentineAmountRounds(amountStr) ==
  IF amountStr = <<>> THEN [ok |-> FALSE, val |-> 0]
  ELSE
    LET s1 == ReplaceAll(amountStr, " ", <<>>)
        isNegative == HasPrefix(s1, <<"-">>)
        s3 == ReplaceAll(TrimPrefix(s1, <<"-">>), ".", <<>>)
        idx == Index(s3, ",")
        pf == ParseFloat(IF idx # 0 THEN SubSeq(s3, 1, idx - 1) ELSE s3)
        up == IF idx # 0 /\ idx < Len(s3) /\ s3[idx + 1] \in {"5", "6", "7", "8", "9"}
              THEN 100 ELSE 0
    IN IF ~pf.ok THEN [ok |-> FALSE, val |-> 0]
       ELSE [ok |-> TRUE, val |-> IF isNegative THEN 0 - (pf.val + up) ELSE pf.val + up]

\* parseArgentineAmount: "1.809,09" -> 1809 (decimals are dropped)
parseArgentineAmount(amountStr) ==
  IF amountStr = <<>> THEN [ok |-> FALSE, val |-> 0]
  ELSE
    LET s1 == ReplaceAll(amountStr, " ", <<>>)
        isNegative == HasPrefix(s1, <<"-">>)
        s2 == TrimPrefix(s1, <<"-">>)
        s3 == ReplaceAll(s2, ".", <<>>)
        idx == Index(s3, ",")
        s4 == IF idx # 0 THEN SubSeq(s3, 1, idx - 1) ELSE s3
        pf == ParseFloat(s4)
    IN IF ~pf.ok THEN [ok |-> FALSE, val |-> 0]
       ELSE [ok |-> TRUE, val |-> IF isNegative THEN 0 - pf.val ELSE pf.val]

\* findColumn: the position of the first header equal to name, 0 when absent
findColumn(headers, name) ==
  LET hit(i) == ToUpper(TrimSpace(headers[i])) = ToUpper(TrimSpace(name))
  IN IF \E i \in 1..Len(headers) : hit(i)
     THEN CHOOSE i \in 1..Len(headers) : hit(i) /\ \A j \in 1..(i - 1) : ~hit(j)
     ELSE 0

\* max(nums...)
max(nums) == CHOOSE n \in nums : \A k \in nums : k <= n

\* the description the loop body builds from the type and reference cells
mpDescription(typeCell, refCell) ==
  LET t0 == TrimSpace(typeCell)
      t1 == TrimPrefix(t0, <<"Transferencia enviada">>)
      t2 == TrimPrefix(t1, <<"Transferencia recibida">>)
      transactionType == TrimSpace(t2)
      referenceID == TrimSpace(refCell)
  IN IF referenceID # <<>>
     THEN transactionType \o <<" ", "-", " ">> \o referenceID
     ELSE transactionType

\* mpAmountStep skipping the row, as the Santander parser does for a cell
mpAmountStepLenient(amountCell, i, date, description, accountID) ==
  LET a == parseArgentineAmount(TrimSpace(amountCell))
  IN IF ~a.ok THEN [kind |-> "skip"]
     ELSE [kind |-> "record",
           record |-> NewRecord(date, description, a.val, CurrencyARS, accountID)]

\* the amount step of the loop body: an amount that does not parse ends the
\* whole Parse with an error naming the row, any other amount is appended
mpAmountStep(amountCell, i, date, description, accountID) ==
  LET a == parseArgentineAmount(TrimSpace(amountCell))
  IN IF ~a.ok
     THEN [kind |-> "error",
           err |-> [msg |-> "failed to parse amount in row", row |-> i + 5]]
     ELSE [kind |-> "record",
           record |-> NewRecord(date, description, a.val, CurrencyARS, accountID)]

\* mpDateStep skipping the row, as the Santander parser does for a date
mpDateStepLenient(dateStr, i) ==
  LET p == TimeParseDMY(dateStr, "-")
  IN IF ~p.ok THEN [kind |-> "skip"] ELSE [kind |-> "date", date |-> AddDay(p.t)]

\* the date step of the loop body: a non-blank date cell that time.Parse
\* rejects ends the whole Parse with an error naming the row
mpDateStep(dateStr, i) ==
  LET p == TimeParseDMY(dateStr, "-")
  IN IF ~p.ok
     THEN [kind |-> "error",
           err |-> [msg |-> "failed to parse date in row", row |-> i + 5]]
     ELSE [kind |-> "date", date |-> AddDay(p.t)]

\* one iteration of the loop over dataRows; i is the 0-based index of row.
\* cols = [date, type, ref, amount], 1-based positions.
mpRow(row, i, cols, accountID) ==
  IF Len(row) = 0 \/ TrimSpace(row[1]) = <<>> THEN [kind |-> "skip"]
  ELSE IF Len(row) < max({cols.date, cols.type, cols.ref, cols.amount})
  THEN [kind |-> "skip"]
  ELSE
    LET dateStr == TrimSpace(row[cols.date])
    IN IF dateStr = <<>> THEN [kind |-> "skip"]
       ELSE
         LET ds == mpDateStep(dateStr, i)
             description == mpDescription(row[cols.type], row[cols.ref])
         IN IF ds.kind # "date" THEN ds
            ELSE IF description = <<>> \/ description = <<" ", "-", " ">>
            THEN [kind |-> "skip"]
            ELSE mpAmountStep(row[cols.amount], i, ds.date, description, accountID)

RECURSIVE mpLoop(_, _, _, _, _)
\* the loop over dataRows from position k on, records being those appended
\* so far: the first error returns (nil, err), the end returns the batch
mpLoop(dataRows, k, cols, accountID, records) ==
  IF k > Len(dataRows)
  THEN [batch |-> <<[Records |-> records, Provider |-> "mercadopago",
                     Currency |-> CurrencyARS]>>,
        err |-> <<>>]
  ELSE
    LET o == mpRow(dataRows[k], k - 1, cols, accountID)
    IN CASE o.kind = "error" -> [batch |-> <<>>, err |-> <<o.err>>]
         [] o.kind = "skip" -> mpLoop(dataRows, k + 1, cols, accountID, records)
         [] OTHER -> mpLoop(dataRows, k + 1, cols, accountID, Append(records, o.record))

\* MercadoPagoParser.Parse on a content given as lines of fields
MercadoPagoParse(lines, accountID) ==
  LET read == csvReadAll(lines)
      rows == read.rows
  IN IF ~read.ok THEN [batch |-> <<>>, err |-> <<[msg |-> "failed to parse CSV"]>>]
     ELSE IF Len(rows) < 5
     THEN [batch |-> <<>>,
           err |-> <<[msg |-> "invalid MercadoPago file: expected at least 5 rows"]>>]
     ELSE
       LET headers == rows[4]
           dataRows == SubSeq(rows, 5, Len(rows))
           cols == [date |-> findColumn(headers, <<"RELEASE_DATE">>),
                    type |-> findColumn(headers, <<"TRANSACTION_TYPE">>),
                    ref |-> findColumn(headers, <<"REFERENCE_ID">>),
                    amount |-> findColumn(headers, <<"TRANSACTION_NET_AMOUNT">>)]
       IN IF cols.date = 0 \/ cols.type = 0 \/ cols.ref = 0 \/ cols.amount = 0
          THEN [batch |-> <<>>,
                err |-> <<[msg |-> "missing required columns in MercadoPago file"]>>]
          ELSE mpLoop(dataRows, 1, cols, accountID, <<>>)

\* ------------------------------------------------------------------ Santander parser

\* strings.ToLower on the words the Santander parser looks for
ToLowerSym(c) ==
  CASE c \in {"Fecha", "FECHA"} -> "fecha"
    [] c = "PAGO DE TARJETA Y DEVOLUCIONES" -> "pago de tarjeta y devoluciones"
    [] c = "Pago de tarjeta y devoluciones" -> "pago de tarjeta y devoluciones"
    [] c = "Tarjeta de " -> "tarjeta de "
    [] c = " terminada en" -> " terminada en"
    [] OTHER -> c

ToLower(s) == [i \in 1..Len(s) |-> ToLowerSym(s[i])]

\* sectionPattern.MatchString: (?i)Pago de tarjeta y devoluciones|Tarjeta de .* terminada en
\* found anywhere in the cell
sectionPatternMatch(cell) ==
  LET l == ToLower(cell)
  IN \/ Contains(l, "pago de tarjeta y devoluciones")
     \/ \E i \in 1..Len(l) : \E j \in (i + 1)..Len(l) :
          l[i] = "tarjeta de " /\ l[j] = " terminada en"

\* getCellValue: the trimmed cell, "" past the end of the row (col is 0-based)
getCellValue(row, col) ==
  IF col < 0 \/ col >= Len(row) THEN <<>> ELSE TrimSpace(row[col + 1])

\* isEmptyRow
isEmptyRow(row) == \A i \in 1..Len(row) : TrimSpace(row[i]) = <<>>

\* isDateLike: ^\d{1,2}/\d{1,2}/\d{4}$ or a number
isDateLike(s) ==
  LET a == Index(s, "/")
      rest == SubSeq(s, a + 1, Len(s))
      b == Index(rest, "/")
      p1 == SubSeq(s, 1, a - 1)
      p2 == SubSeq(rest, 1, b - 1)
      p3 == SubSeq(rest, b + 1, Len(rest))
  IN \/ /\ a # 0 /\ b # 0
        /\ Len(p1) \in 1..2 /\ AllDigits(p1)
        /\ Len(p2) \in 1..2 /\ AllDigits(p2)
        /\ Len(p3) = 4 /\ AllDigits(p3)
     \/ ParseFloat(s).ok

\* the day n days after 1899-12-30 (excelEpoch.AddDate(0, 0, n)), by the
\* days-to-civil-date computation of the proleptic Gregorian calendar
excelEpochAddDays(n) ==
  LET z == n + 693899
      era == z \div 146097
      doe == z - era * 146097
      yoe == (doe - doe \div 1460 + doe \div 36524 - doe \div 146096) \div 365
      doy == doe - (365 * yoe + yoe \div 4 - yoe \div 100)
      mp == (5 * doy + 2) \div 153
      d == doy - (153 * mp + 2) \div 5 + 1
      m == IF mp < 10 THEN mp + 3 ELSE mp - 9
      y == yoe + era * 400 + (IF m <= 2 THEN 1 ELSE 0)
  IN [y |-> y, m |-> m, d |-> d]

\* int(f) of a float held in hundredths: truncation toward zero
truncInt(val) == IF val >= 0 THEN val \div 100 ELSE 0 - ((0 - val) \div 100)

\* parseDate: DD/MM/YYYY text, else an Excel day number
parseDate(dateStr) ==
  LET txt == TimeParseDMY(dateStr, "/")
      num == ParseFloat(dateStr)
  IN IF Contains(dateStr, "/") /\ txt.ok THEN [ok |-> TRUE, t |-> txt.t]
     ELSE IF num.ok THEN [ok |-> TRUE, t |-> excelEpochAddDays(truncInt(num.val))]
     ELSE [ok |-> FALSE, t |-> ZeroTime]

\* parseSantanderAmount dropping the decimals, as parseArgentineAmount does
parseSantanderAmountTruncates(amountStr) ==
  IF amountStr = <<>> THEN [ok |-> FALSE, val |-> 0]
  ELSE
    LET c1 == ReplaceAll(amountStr, "$", <<>>)
        c2 == ReplaceAll(c1, "U", <<>>)
        c3 == ReplaceAll(c2, "D", <<>>)
        c4 == ReplaceAll(c3, "S", <<>>)
        c5 == TrimSpace(ReplaceAll(c4, " ", <<>>))
        s3 == ReplaceAll(TrimPrefix(c5, <<"-">>), ".", <<>>)
        idx == Index(s3, ",")
        pf == ParseFloat(IF idx # 0 THEN SubSeq(s3, 1, idx - 1) ELSE s3)
    IN IF c5 = <<>> \/ ~pf.ok THEN [ok |-> FALSE, val |-> 0]
       ELSE [ok |-> TRUE, val |-> IF HasPrefix(c5, <<"-">>) THEN 0 - pf.val ELSE pf.val]

\* parseSantanderAmount: "$28.640,00", "U$D4,82", "US$-29,34"
parseSantanderAmount(amountStr) ==
  IF amountStr = <<>> THEN [ok |-> FALSE, val |-> 0]
  ELSE
    LET c1 == ReplaceAll(amountStr, "$", <<>>)
        c2 == ReplaceAll(c1, "U", <<>>)
        c3 == ReplaceAll(c2, "D", <<>>)
        c4 == ReplaceAll(c3, "S", <<>>)
        c5 == TrimSpace(ReplaceAll(c4, " ", <<>>))
        isNegative == HasPrefix(c5, <<"-">>)
        s2 == TrimPrefix(c5, <<"-">>)
        s3 == ReplaceAll(s2, ".", <<>>)
        s4 == ReplaceAll(s3, ",", <<".">>)
        pf == ParseFloat(s4)
    IN IF c5 = <<>> \/ ~pf.ok THEN [ok |-> FALSE, val |-> 0]
       ELSE [ok |-> TRUE, val |-> IF isNegative THEN 0 - pf.val ELSE pf.val]

\* spAmountRecords keeping the sign of the cell
spAmountRecordsKeepsSign(a, cellStr, currency, date, finalDesc, accountID) ==
  IF cellStr # <<>> /\ a.ok /\ a.val # 0
  THEN <<NewRecord(date, finalDesc, a.val, currency, accountID)>>
  ELSE <<>>

\* the records one currency cell of a row adds: one negated record when the
\* cell is non-empty and parses to a non-zero amount, else none
spAmountRecords(a, cellStr, currency, date, finalDesc, accountID) ==
  IF cellStr # <<>> /\ a.ok /\ a.val # 0
  THEN <<NewRecord(date, finalDesc, 0 - a.val, currency, accountID)>>
  ELSE <<>>

\* strings.Join of the non-empty parts with " - "
spJoin(description, cuotas, comprobante) ==
  LET parts == SelectSeq(<<description, cuotas, comprobante>>, LAMBDA x : x # <<>>)
      sep == <<" ", "-", " ">>
  IN CASE Len(parts) = 0 -> <<>>
       [] Len(parts) = 1 -> parts[1]
       [] Len(parts) = 2 -> parts[1] \o sep \o parts[2]
       [] OTHER -> parts[1] \o sep \o parts[2] \o sep \o parts[3]

\* the column offset parseSection infers from its first row
spOffset(rows, startRow) ==
  IF startRow < Len(rows) /\ Len(rows[startRow + 1]) > 1
  THEN IF isDateLike(getCellValue(rows[startRow + 1], 0)) THEN 0
       ELSE IF isDateLike(getCellValue(rows[startRow + 1], 1)) THEN 1
       ELSE 0
  ELSE 0

\* spRowParsed forgetting the last valid date at a date that does not parse
spRowParsedForgets(row, offset, lastValidDate, accountID, dateStr, pd, finalDesc) ==
  LET date == IF dateStr # <<>> THEN AddDay(pd.t) ELSE lastValidDate
  IN IF isEmptyRow(row) THEN [records |-> <<>>, lastValidDate |-> lastValidDate]
     ELSE IF dateStr # <<>> /\ ~pd.ok THEN [records |-> <<>>, lastValidDate |-> ZeroTime]
     ELSE IF dateStr = <<>> /\ IsZero(lastValidDate)
     THEN [records |-> <<>>, lastValidDate |-> lastValidDate]
     ELSE IF finalDesc = <<>> THEN [records |-> <<>>, lastValidDate |-> date]
     ELSE [records |->
             spAmountRecords(parseSantanderAmount(getCellValue(row, 4 + offset)),
                             getCellValue(row, 4 + offset), CurrencyARS, date,
                             finalDesc, accountID)
             \o spAmountRecords(parseSantanderAmount(getCellValue(row, 5 + offset)),
                                getCellValue(row, 5 + offset), CurrencyUSD, date,
                                finalDesc, accountID),
           lastValidDate |-> date]

\* one data row of a section once its date cell dateStr is parsed to pd and
\* its description is joined
spRowParsed(row, offset, lastValidDate, accountID, dateStr, pd, finalDesc) ==
  LET skip == [records |-> <<>>, lastValidDate |-> lastValidDate]
      date == IF dateStr # <<>> THEN AddDay(pd.t) ELSE lastValidDate
      last == IF dateStr # <<>> THEN date ELSE lastValidDate
  IN IF isEmptyRow(row) THEN skip
     ELSE IF dateStr # <<>> /\ ~pd.ok THEN skip
     ELSE IF dateStr = <<>> /\ IsZero(lastValidDate) THEN skip
     ELSE IF finalDesc = <<>> THEN [records |-> <<>>, lastValidDate |-> last]
     ELSE [records |->
             spAmountRecords(parseSantanderAmount(getCellValue(row, 4 + offset)),
                             getCellValue(row, 4 + offset), CurrencyARS, date,
                             finalDesc, accountID)
             \o spAmountRecords(parseSantanderAmount(getCellValue(row, 5 + offset)),
                                getCellValue(row, 5 + offset), CurrencyUSD, date,
                                finalDesc, accountID),
           lastValidDate |-> last]

\* one data row of a section: the records it adds and the last valid date
\* after it
spRow(row, offset, lastValidDate, accountID) ==
  spRowParsed(row, offset, lastValidDate, accountID,
              getCellValue(row, offset), parseDate(getCellValue(row, offset)),
              spJoin(getCellValue(row, 1 + offset), getCellValue(row, 2 + offset),
                     getCellValue(row, 3 + offset)))

RECURSIVE spSectionLoop(_, _, _, _, _, _)
\* the loop of parseSection goes on after a row that gave o
spSectionNext(rows, i, offset, accountID, records, o) ==
  spSectionLoop(rows, i + 1, offset, o.lastValidDate, accountID, records \o o.records)

\* the loop of parseSection from row i (0-based) on
spSectionLoop(rows, i, offset, lastValidDate, accountID, records) ==
  IF i >= Len(rows) THEN [records |-> records, nextRow |-> Len(rows)]
  ELSE IF Len(rows[i + 1]) = 0 \/ sectionPatternMatch(rows[i + 1][1])
  THEN [records |-> records, nextRow |-> i]
  ELSE spSectionNext(rows, i, offset, accountID, records,
                     spRow(rows[i + 1], offset, lastValidDate, accountID))

\* SantanderParser.parseSection
parseSection(rows, startRow, accountID) ==
  spSectionLoop(rows, startRow, spOffset(rows, startRow), ZeroTime, accountID, <<>>)

\* the header row the scan finds after a section marker at row i (0-based),
\* -1 when none of the next four rows starts with a cell containing "fecha"
spHeaderRow(rows, i) ==
  LET isHeader(j) == Len(rows[j + 1]) > 0 /\ Contains(ToLower(rows[j + 1][1]), "fecha")
      cand == {j \in (i + 1)..(i + 4) : j < Len(rows) /\ isHeader(j)}
  IN IF cand = {} THEN 0 - 1 ELSE CHOOSE j \in cand : \A k \in cand : j <= k

RECURSIVE spScan(_, _, _, _)
\* the scan takes the records of a parsed section and goes on after it
spScanSection(rows, accountID, records, sec) ==
  spScan(rows, sec.nextRow, accountID, records \o sec.records)

\* the scan goes on after the section whose header row is headerRow, or at
\* the next row when no header row was found
spScanNext(rows, i, accountID, records, headerRow) ==
  IF headerRow # 0 - 1
  THEN spScanSection(rows, accountID, records, parseSection(rows, headerRow + 1, accountID))
  ELSE spScan(rows, i + 1, accountID, records)

\* the scan loop of SantanderParser.Parse from row i (0-based) on
spScan(rows, i, accountID, records) ==
  IF i >= Len(rows) THEN records
  ELSE spScanNext(rows, i, accountID, records,
                  IF Len(rows[i + 1]) > 0 /\ sectionPatternMatch(rows[i + 1][1])
                  THEN spHeaderRow(rows, i) ELSE 0 - 1)

\* SantanderParser.Parse on a workbook given as [ok, rows]: ok is whether
\* excelize opens the file and yields the rows of its first sheet
SantanderParse(file, accountID) ==
  IF ~file.ok THEN [batch |-> <<>>, err |-> <<[msg |-> "failed to open Excel file"]>>]
  ELSE [batch |-> <<[Records |-> spScan(file.rows, 0, accountID, <<>>),
                     Provider |-> "santander", Currency |-> CurrencyARS]>>,
        err |-> <<>>]

\* ------------------------------------------------------------------ record store

\* the error texts of RecordRepository and RecordService
duplicateRecordMsg ==
  "duplicate record: a record with the same date, description, and amount already exists"

\* the driver's error text of a failed statement other than a uniqueness
\* violation (disk, lock, cancelled context)
dbErrorText == "database error"

\* a row of table records has the same (date, description, amount)
sameTriple(row, date, description, amount) ==
  row.Date = date /\ row.Description = description /\ row.Amount = amount

\* Exists looking at the rows in pesos only
ExistsInPesos(rows, date, description, amount) ==
  \E row \in rows : sameTriple(row, date, description, amount) /\ row.Currency = CurrencyARS

\* Exists matching the ID of a parsed record, which is 0, as well
ExistsWithID(rows, date, description, amount) ==
  \E row \in rows : sameTriple(row, date, description, amount) /\ row.ID = 0

\* RecordRepository.Exists on table content rows: SELECT COUNT(*) ... > 0
Exists(rows, date, description, amount) ==
  \E row \in rows : sameTriple(row, date, description, amount)

\* table records without its UNIQUE constraint
uniqueConstraintAbsent(rows, record) == FALSE

\* the constraint UNIQUE(date, description, amount) of table records rejects
\* the insertion of record into rows
uniqueConstraintFailed(rows, record) ==
  \E row \in rows : sameTriple(row, record.Date, record.Description, record.Amount)

\* the row INSERT INTO records adds for record, under the next AUTOINCREMENT id
insertedRow(id, record) ==
  [ID |-> id, Date |-> record.Date, Description |-> record.Description,
   Amount |-> record.Amount, Currency |-> record.Currency,
   AccountID |-> record.AccountID]

\* time.Now() at a call of Create: some instant after the zero time
timeNow == [y |-> 2026, m |-> 1, d |-> 1]

\* RecordRepository.Create on table content rows with AUTOINCREMENT counter
\* seq: the error returned (<<>> for nil), the table afterwards and the
\* record the caller's pointer leads to afterwards (CreatedAt is set before
\* the statement runs, ID after it succeeded).  fault says the statement
\* fails for a reason other than uniqueness.
Create(rows, seq, record, fault) ==
  IF fault
  THEN [err |-> <<"failed to create record: ", dbErrorText>>, rows |-> rows, seq |-> seq,
        record |-> [record EXCEPT !.CreatedAt = timeNow]]
  ELSE IF uniqueConstraintFailed(rows, record)
  THEN [err |-> <<duplicateRecordMsg>>, rows |-> rows, seq |-> seq,
        record |-> [record EXCEPT !.CreatedAt = timeNow]]
  ELSE [err |-> <<>>, rows |-> rows \cup {insertedRow(seq + 1, record)}, seq |-> seq + 1,
        record |-> [record EXCEPT !.CreatedAt = timeNow, !.ID = seq + 1]]

\* RecordRepository.Delete: DELETE FROM records WHERE id = ?
Delete(rows, id) ==
  IF \E row \in rows : row.ID = id
  THEN [err |-> <<>>, rows |-> {row \in rows : row.ID # id}]
  ELSE [err |-> <<"record not found">>, rows |-> rows]

\* ------------------------------------------------------------------ RecordService

\* the parsers main registers with the service
parsers == {"mercadopago", "santander"}

\* parser.Parse(reader, accountID) of the parser registered under provider.
\* An uploaded file is [ok, rows]: for a CSV file rows are its lines, for a
\* workbook ok is whether excelize reads it and rows the rows of its sheet.
parserParse(provider, file, accountID) ==
  IF provider = "mercadopago" THEN MercadoPagoParse(file.rows, accountID)
  ELSE SantanderParse(file, accountID)

\* ImportResult with the given total and all counters at zero
newImportResult(total) ==
  [TotalRecords |-> total, ImportedRecords |-> 0, DuplicateRecords |-> 0,
   FailedRecords |-> 0, Errors |-> <<>>]

\* the locals of an ImportRecords call that has not started
importIdle ==
  [pc |-> "idle", upload |-> <<>>, records |-> <<>>, k |-> 0,
   result |-> newImportResult(0), ret |-> <<>>, err |-> <<>>]

\* ImportRecords returns (nil, err)
importFail(s, e) == [s EXCEPT !.pc = "done", !.ret = <<>>, !.err = <<e>>]

\* ImportRecords after Parse returned parsed: the wrapped error, or the fresh
\* result and the first record of the loop
importParsed(s, parsed) ==
  IF parsed.err # <<>>
  THEN importFail(s, <<"failed to parse file: ", parsed.err[1]>>)
  ELSE
    LET records == parsed.batch[1].Records
        result == newImportResult(Len(records))
    IN IF Len(records) = 0
       THEN [s EXCEPT !.pc = "done", !.result = result, !.ret = <<result>>]
       ELSE [s EXCEPT !.pc = "exists", !.records = records, !.k = 1,
                      !.result = result]

\* importBegin with the CSV parser as the fallback for an unknown provider
importBeginFallback(u) ==
  importParsed([importIdle EXCEPT !.upload = <<u>>],
               MercadoPagoParse(u.file.rows, u.accountID))

\* ImportRecords up to its loop: parser lookup, Parse, the fresh result.
\* u is the request: [provider, accountID, file].
importBegin(u) ==
  IF u.provider \notin parsers
  THEN importFail([importIdle EXCEPT !.upload = <<u>>], <<"unknown provider: ", u.provider>>)
  ELSE importParsed([importIdle EXCEPT !.upload = <<u>>],
                    parserParse(u.provider, u.file, u.accountID))

\* the loop moves on to the next record, or ends and ImportRecords returns
\* (result, nil)
importContinue(s) ==
  IF s.k < Len(s.records)
  THEN [s EXCEPT !.pc = "exists", !.k = s.k + 1]
  ELSE [s EXCEPT !.pc = "done", !.k = s.k + 1, !.ret = <<s.result>>]

\* importExistsFailed with a break in place of continue: the failure ends
\* the loop and the result so far is returned
importExistsFailedStops(s, e) ==
  LET t == [s EXCEPT
        !.result.FailedRecords = @ + 1,
        !.result.Errors = Append(@, <<"Failed to check duplicate for record: ">> \o e)]
  IN [t EXCEPT !.pc = "done", !.k = s.k + 1, !.ret = <<t.result>>]

\* the loop body when Exists fails
importExistsFailed(s, e) ==
  importContinue([s EXCEPT
    !.result.FailedRecords = @ + 1,
    !.result.Errors = Append(@, <<"Failed to check duplicate for record: ">> \o e)])

\* importDuplicate without the DuplicateRecords++
importDuplicateUncounted(s) == importContinue(s)

\* the loop body when Exists reports the record as stored
importDuplicate(s) ==
  importContinue([s EXCEPT !.result.DuplicateRecords = @ + 1])

\* importAfterExists without the "if exists" branch
importAfterExistsUnchecked(s, exists, err) ==
  IF err # <<>> THEN importExistsFailed(s, err) ELSE [s EXCEPT !.pc = "create"]

\* the loop body after Exists returned (exists, err)
importAfterExists(s, exists, err) ==
  IF err # <<>> THEN importExistsFailed(s, err)
  ELSE IF exists THEN importDuplicate(s)
  ELSE [s EXCEPT !.pc = "create"]

\* importCreateFailed putting its message in front of Errors
importCreateFailedPrepends(s, e) ==
  importContinue([s EXCEPT
    !.result.FailedRecords = @ + 1,
    !.result.Errors = <<<<"Failed to create record: ">> \o e>> \o @])

\* importCreateFailed with a return in place of continue: the failure ends
\* ImportRecords with the error
importCreateFailedReturns(s, e) == importFail(s, <<"Failed to create record: ">> \o e)

\* the loop of ImportRecords handing Create the address of the batch element
importLoopAlias(s, written) == [s EXCEPT !.records[s.k] = written]

\* Create is handed &record, the address of the loop variable, a copy of
\* batch.Records[k]: what Create wrote stays in the copy, which the next
\* iteration overwrites, and the batch keeps its element
importLoopCopy(s, written) == s

\* the loop body when Create fails
importCreateFailed(s, e) ==
  importContinue([s EXCEPT
    !.result.FailedRecords = @ + 1,
    !.result.Errors = Append(@, <<"Failed to create record: ">> \o e)])

\* the loop body when Create succeeds
importCreated(s) ==
  importContinue([s EXCEPT !.result.ImportedRecords = @ + 1])

\* the loop body after Create returned err
importAfterCreate(s, err) ==
  IF err # <<>> THEN importCreateFailed(s, err) ELSE importCreated(s)

\* the locals of a CreateRecord call that has not started
createIdle == [pc |-> "idle", record |-> <<>>, err |-> <<>>]

\* CreateRecord up to its Exists call: Validate
createBegin(record) ==
  LET v == Validate(record)
  IN IF v # <<>>
     THEN [pc |-> "done", record |-> <<record>>, err |-> <<"invalid record: ">> \o v]
     ELSE [pc |-> "exists", record |-> <<record>>, err |-> <<>>]

\* CreateRecord after Exists returned (exists, err)
createAfterExists(s, exists, err) ==
  IF err # <<>>
  THEN [s EXCEPT !.pc = "done", !.err = <<"failed to check for duplicates: ">> \o err]
  ELSE IF exists THEN [s EXCEPT !.pc = "done", !.err = <<duplicateRecordMsg>>]
  ELSE [s EXCEPT !.pc = "create"]

\* CreateRecord after Create returned err
createAfterCreate(s, err) ==
  IF err # <<>>
  THEN [s EXCEPT !.pc = "done", !.err = <<"failed to create record: ">> \o err]
  ELSE [s EXCEPT !.pc = "done", !.err = <<>>]

\* the status Handler.CreateRecord answers with when RecordService.CreateRecord
\* returned err: 409 when the text of the error is the duplicate message and
\* nothing else, 400 for any other error, 201 without error
HandlerCreateRecord(err) ==
  IF err = <<>> THEN 201
  ELSE IF err = <<duplicateRecordMsg>> THEN 409
  ELSE 400

\* ------------------------------------------------------------------ inputs

\* the number of requests the service receives (ImportRecords, CreateRecord
\* and DeleteRecord together)
MaxRequests == 3

\* the number of repository calls that fail for a reason other than uniqueness
MaxFaults == 1

\* the number of data rows of a CSV content given to the parser alone
MaxDataRows == 2

d2207 == <<"2", "2", "-", "0", "7", "-", "2", "0", "2", "5">>

d3112 == <<"3", "1", "-", "1", "2", "-", "2", "0", "2", "5">>

dIso == <<"2", "0", "2", "5", "-", "0", "7", "-", "2", "2">>

d3102 == <<"3", "1", "-", "0", "2", "-", "2", "0", "2", "5">>

aNeg24000 == <<"-", "2", "4", ".", "0", "0", "0", ",", "0", "0">>

a1809 == <<"1", ".", "8", "0", "9", ",", "9", "9">>

aHalf == <<"0", ",", "5", "0">>

aText == <<"n", "/", "a">>

tEnviada == <<"Transferencia enviada", " ", "Area">>

tPago == <<"Pago">>

tRecibida == <<"Transferencia recibida">>

ref119 == <<"1", "1", "9">>

header == <<<<"RELEASE_DATE">>, <<"TRANSACTION_TYPE">>, <<"REFERENCE_ID">>,
            <<"TRANSACTION_NET_AMOUNT">>>>

\* the same columns in lower case, reference id first and date last
headerMoved == <<<<"reference_id">>, <<"transaction_type">>,
                 <<"transaction_net_amount">>, <<" ", "release_date">>>>

\* no amount column
headerShort == <<<<"RELEASE_DATE">>, <<"TRANSACTION_TYPE">>, <<"REFERENCE_ID">>,
                 <<"BALANCE">>>>

meta == <<<<"Reporte">>, <<>>, <<>>, <<>>>>

\* a data line laid out for header h
dataLine(h, date, type, ref, amount) ==
  IF h = headerMoved THEN <<ref, type, amount, date>> ELSE <<date, type, ref, amount>>

\* a CSV content: three metadata lines, the header line, the data lines
csvContent(h, dataLines) == <<meta, meta, meta, h>> \o dataLines

DateCells == {d2207, dIso, d3102, <<" ">>}

TextCells == {<<tEnviada, ref119>>, <<tPago, <<>>>>, <<tRecibida, ref119>>, <<<<>>, <<>>>>}

AmountCells == {aNeg24000, aHalf, aText, <<>>}

Headers == {header, headerMoved, headerShort}

\* the data lines of the parser's inputs, laid out for header h
DataLines(h) ==
  {dataLine(h, d, t[1], t[2], a) : d \in DateCells, t \in TextCells, a \in AmountCells}

\* csvIn holds one of the inputs of the CSV parser run alone: a header and at
\* most MaxDataRows data lines
IsCsvInput(in) ==
  \E h \in Headers : \E k \in 0..MaxDataRows : \E rows \in [1..k -> DataLines(h)] :
    in = <<csvContent(h, rows)>>

\* a workbook with one card section whose only data row carries the same
\* amount in pesos and in dollars
gridTwice ==
  <<<<<<"Tarjeta de ", "Visa", " terminada en", " ", "1">>>>,
    <<<<"Fecha">>, <<"Descripcion">>>>,
    <<<<"0", "1", "/", "0", "6", "/", "2", "0", "2", "4">>, <<"Super">>, <<>>, <<>>,
      <<"$", "5", ",", "0", "0">>, <<"U", "$", "D", "5", ",", "0", "0">>>>>>

\* the import requests of the model: [provider, accountID, file]
Uploads ==
  {[provider |-> "mercadopago", accountID |-> "acc1",
    file |-> [ok |-> TRUE, rows |-> csvContent(header, <<dataLine(header, d2207, tEnviada, ref119, aNeg24000),
                                  dataLine(header, d3112, tPago, <<"7">>, a1809)>>)]],
   [provider |-> "mercadopago", accountID |-> "acc2",
    file |-> [ok |-> TRUE, rows |-> csvContent(header, <<dataLine(header, d3112, tPago, <<"7">>, a1809)>>)]],
   [provider |-> "mercadopago", accountID |-> "acc1",
    file |-> [ok |-> TRUE, rows |-> csvContent(header, <<dataLine(header, d2207, tEnviada, ref119, aNeg24000),
                                  dataLine(header, dIso, tPago, <<"7">>, a1809)>>)]],
   [provider |-> "santander", accountID |-> "acc2", file |-> [ok |-> TRUE, rows |-> gridTwice]],
   [provider |-> "santander", accountID |-> "acc2", file |-> [ok |-> FALSE, rows |-> <<>>]],
   [provider |-> "paypal", accountID |-> "acc1",
    file |-> [ok |-> TRUE, rows |-> csvContent(header, <<dataLine(header, d3112, tPago, <<"7">>, a1809)>>)]]}

\* the records of the CreateRecord requests of the model: the triple of the
\* first CSV line above in dollars, a record of its own, and one without amount
ManualRecords ==
  {NewRecord([y |-> 2025, m |-> 7, d |-> 23], <<"Area", " ", "-", " ", "1", "1", "9">>,
             0 - 2400000, CurrencyUSD, "manual"),
   NewRecord([y |-> 2025, m |-> 7, d |-> 23], <<"Cafe">>, 0 - 1250, CurrencyARS, "manual"),
   NewRecord([y |-> 2025, m |-> 7, d |-> 23], <<"Cafe">>, 0, CurrencyARS, "manual")}

\* ------------------------------------------------------------------ state

VARIABLES
  store,    \* the rows of table records
  seq,      \* the AUTOINCREMENT counter of table records
  imp,      \* imp[p]: the locals of ImportRecords request p
  calls,    \* calls[p]: the repository calls request p has made, in order
  man,      \* the locals of the CreateRecord request in progress or last served
  nRequests, \* the requests received so far
  nFaults,  \* repository calls that have failed for a reason other than uniqueness
  csvIn,    \* the content given to the CSV parser run alone
  csvOut,   \* what it returned: <<>> before the call, then <<result>>
  xls,      \* the locals of the spreadsheet parser run alone on a sheet
  raw,      \* the CSV parser run alone on a raw content: its locals and result
  amt       \* an amount text given to an amount parser alone, and the result

vars == <<store, seq, imp, calls, man, nRequests, nFaults, csvIn, csvOut, xls, raw, amt>>

\* no sheet has been given to the spreadsheet parser alone
xlsIdle == [pc |-> "idle"]

\* no raw content has been given to the CSV parser alone
rawIdle == [pc |-> "idle"]

\* no amount text has been given to an amount parser alone
amtIdle == [pc |-> "idle"]

\* the ImportRecords requests in progress at a time: each of the two runs
\* one request after the other, in its own goroutine of the HTTP server
Requests == {"r1", "r2"}

\* whether the next repository call fails for a reason other than uniqueness
Faults == IF nFaults < MaxFaults THEN BOOLEAN ELSE {FALSE}

\* the count of such failures after a call
countFault(fault) == nFaults' = IF fault THEN nFaults + 1 ELSE nFaults

\* the state the service is constructed in: NewRecordRepository on a fresh
\* database file, no request yet
Init ==
  /\ store = {}
  /\ seq = 0
  /\ imp = [p \in Requests |-> importIdle]
  /\ calls = [p \in Requests |-> <<>>]
  /\ man = createIdle
  /\ nRequests = 0
  /\ nFaults = 0
  /\ csvIn = <<>>
  /\ csvOut = <<>>
  /\ xls = xlsIdle
  /\ raw = rawIdle
  /\ amt = amtIdle

\* ------------------------------------------------------------------ ImportRecords

\* ImportRecords up to its loop for each request of the model
importBegun == [u \in Uploads |-> importBegin(u)]

\* request p arrives: provider lookup and Parse
ImportRecordsBegin(p) ==
  /\ imp[p].pc \in {"idle", "done"}
  /\ nRequests < MaxRequests
  /\ nRequests' = nRequests + 1
  /\ \E u \in Uploads : imp' = [imp EXCEPT ![p] = importBegun[u]]
  /\ calls' = [calls EXCEPT ![p] = <<>>]
  /\ UNCHANGED <<store, seq, man, nFaults, csvIn, csvOut, xls, raw, amt>>

\* request p calls repo.Exists for its current record; fault is a failing query
ImportRecordsExists(p) ==
  /\ imp[p].pc = "exists"
  /\ \E fault \in Faults :
       LET record == imp[p].records[imp[p].k]
           exists == ~fault /\ Exists(store, record.Date, record.Description, record.Amount)
           err == IF fault THEN <<"failed to check record existence: ", dbErrorText>>
                  ELSE <<>>
       IN /\ countFault(fault)
          /\ imp' = [imp EXCEPT ![p] = importAfterExists(@, exists, err)]
          /\ calls' = [calls EXCEPT ![p] = Append(@,
               [op |-> "Exists", k |-> imp[p].k,
                out |-> IF fault THEN "error" ELSE IF exists THEN "true" ELSE "false"])]
  /\ UNCHANGED <<store, seq, man, nRequests, csvIn, csvOut, xls, raw, amt>>

\* request p calls repo.Create for its current record
ImportRecordsCreate(p) ==
  /\ imp[p].pc = "create"
  /\ \E fault \in Faults :
       LET c == Create(store, seq, imp[p].records[imp[p].k], fault)
       IN /\ countFault(fault)
          /\ store' = c.rows
          /\ seq' = c.seq
          /\ imp' = [imp EXCEPT ![p] = importAfterCreate(importLoopCopy(@, c.record), c.err)]
          /\ calls' = [calls EXCEPT ![p] = Append(@,
               [op |-> "Create", k |-> imp[p].k,
                out |-> IF c.err = <<>> THEN "ok"
                        ELSE IF fault THEN "error" ELSE "unique"])]
  /\ UNCHANGED <<man, nRequests, csvIn, csvOut, xls, raw, amt>>

\* ------------------------------------------------------------------ CreateRecord, DeleteRecord

\* a CreateRecord request arrives: Validate
CreateRecordBegin ==
  /\ man.pc \in {"idle", "done"}
  /\ nRequests < MaxRequests
  /\ nRequests' = nRequests + 1
  /\ \E record \in ManualRecords : man' = createBegin(record)
  /\ UNCHANGED <<store, seq, imp, calls, nFaults, csvIn, csvOut, xls, raw, amt>>

\* the CreateRecord request calls repo.Exists
CreateRecordExists ==
  /\ man.pc = "exists"
  /\ \E fault \in Faults :
       LET record == man.record[1]
           exists == ~fault /\ Exists(store, record.Date, record.Description, record.Amount)
           err == IF fault THEN <<"failed to check record existence: ", dbErrorText>>
                  ELSE <<>>
       IN /\ countFault(fault)
          /\ man' = createAfterExists(man, exists, err)
  /\ UNCHANGED <<store, seq, imp, calls, nRequests, csvIn, csvOut, xls, raw, amt>>

\* the CreateRecord request calls repo.Create
CreateRecordCreate ==
  /\ man.pc = "create"
  /\ \E fault \in Faults :
       LET c == Create(store, seq, man.record[1], fault)
       IN /\ countFault(fault)
          /\ store' = c.rows
          /\ seq' = c.seq
          /\ man' = createAfterCreate([man EXCEPT !.record = <<c.record>>], c.err)
  /\ UNCHANGED <<imp, calls, nRequests, csvIn, csvOut, xls, raw, amt>>

\* DeleteRecord(id): repo.Delete, for an id that is stored or not
DeleteRecord(id) ==
  /\ nRequests < MaxRequests
  /\ nRequests' = nRequests + 1
  /\ store' = Delete(store, id).rows
  /\ UNCHANGED <<seq, imp, calls, man, nFaults, csvIn, csvOut, xls, raw, amt>>

Next ==
  \/ \E p \in Requests : ImportRecordsBegin(p)
  \/ \E p \in Requests : ImportRecordsExists(p)
  \/ \E p \in Requests : ImportRecordsCreate(p)
  \/ CreateRecordBegin
  \/ CreateRecordExists
  \/ CreateRecordCreate
  \/ \E id \in 1..(seq + 1) : DeleteRecord(id)

Spec == Init /\ [][Next]_vars

\* ------------------------------------------------------------------ the CSV parser alone

InitCsv ==
  /\ store = {}
  /\ seq = 0
  /\ imp = [p \in Requests |-> importIdle]
  /\ calls = [p \in Requests |-> <<>>]
  /\ man = createIdle
  /\ nRequests = 0
  /\ nFaults = 0
  /\ IsCsvInput(csvIn)
  /\ csvOut = <<>>
  /\ xls = xlsIdle
  /\ raw = rawIdle
  /\ amt = amtIdle

\* MercadoPagoParser.Parse is called on the content
MercadoPagoParserParse ==
  /\ csvOut = <<>>
  /\ csvOut' = <<MercadoPagoParse(csvIn[1], "acc1")>>
  /\ UNCHANGED <<store, seq, imp, calls, man, nRequests, nFaults, csvIn, xls, raw, amt>>

NextCsv == MercadoPagoParserParse

SpecCsv == InitCsv /\ [][NextCsv]_vars

\* ------------------------------------------------------------------ the CSV parser on a raw content

\* A raw content is the sequence of its lines, each the sequence of its
\* characters; no quoted field of the inputs runs over a line end.

RECURSIVE Count(_, _)
\* strings.Count(line, c) for a one-character c
Count(line, c) ==
  IF line = <<>> THEN 0
  ELSE (IF Head(line) = c THEN 1 ELSE 0) + Count(Tail(line), c)

RECURSIVE countAll(_, _)
\* strings.Count over the whole content
countAll(content, c) ==
  IF content = <<>> THEN 0 ELSE Count(Head(content), c) + countAll(Tail(content), c)

\* the separator detection choosing ';' on a tie too
csvSeparatorOnTie(content) ==
  IF countAll(content, ";") >= countAll(content, ",") THEN ";" ELSE ","

\* the separator Parse detects: ',' unless ';' is more frequent
csvSeparator(content) ==
  IF countAll(content, ";") > countAll(content, ",") THEN ";" ELSE ","

RECURSIVE csvScan(_, _, _, _, _, _)
\* csv.Reader on one line from character pos on, with LazyQuotes and
\* TrimLeadingSpace: cur is the field being read, quoted says the reader is
\* inside a quoted field, fields are the fields read so far
csvScan(line, pos, comma, quoted, cur, fields) ==
  IF pos > Len(line) THEN Append(fields, cur)
  ELSE IF quoted
  THEN IF line[pos] # "\""
       THEN csvScan(line, pos + 1, comma, TRUE, Append(cur, line[pos]), fields)
       ELSE IF pos < Len(line) /\ line[pos + 1] = "\""
       THEN csvScan(line, pos + 2, comma, TRUE, Append(cur, "\""), fields)
       ELSE IF pos = Len(line) \/ line[pos + 1] = comma
       THEN csvScan(line, pos + 1, comma, FALSE, cur, fields)
       ELSE csvScan(line, pos + 1, comma, TRUE, Append(cur, "\""), fields)
  ELSE IF line[pos] = comma
  THEN csvScan(line, pos + 1, comma, FALSE, <<>>, Append(fields, cur))
  ELSE IF cur = <<>> /\ line[pos] = " " /\ (pos = 1 \/ line[pos - 1] \in {comma, " "})
  THEN csvScan(line, pos + 1, comma, FALSE, cur, fields)
  ELSE IF cur = <<>> /\ line[pos] = "\"" /\ (pos = 1 \/ line[pos - 1] \in {comma, " "})
  THEN csvScan(line, pos + 1, comma, TRUE, cur, fields)
  ELSE csvScan(line, pos + 1, comma, FALSE, Append(cur, line[pos]), fields)

\* the lines of the content cut into fields at comma; an empty line has none
csvLines(content, comma) ==
  [n \in 1..Len(content) |->
     IF content[n] = <<>> THEN <<>> ELSE csvScan(content[n], 1, comma, FALSE, <<>>, <<>>)]

\* Parse has read the content with the separator it detected
rawParsed(content, separator) ==
  [pc |-> "done", content |-> content, separator |-> separator,
   out |-> MercadoPagoParse(csvLines(content, separator), "acc1")]

\* Parse returning an empty batch, not an error, for a content of fewer than
\* five lines
rawParseShortOk(content) ==
  IF Len(content) < 5
  THEN [pc |-> "done", content |-> content, separator |-> csvSeparator(content),
        out |-> [batch |-> <<[Records |-> <<>>, Provider |-> "mercadopago",
                              Currency |-> CurrencyARS]>>,
                 err |-> <<>>]]
  ELSE rawParsed(content, csvSeparator(content))

\* MercadoPagoParser.Parse on a raw content
rawParse(content) == rawParsed(content, csvSeparator(content))

\* the greatest number of lines of a raw content given to the parser
MaxRawLines == 5

semiMeta == <<"Reporte", ";", ";", ";">>

semiHeader ==
  <<"RELEASE_DATE", ";", "TRANSACTION_TYPE", ";", "REFERENCE_ID", ";",
    "TRANSACTION_NET_AMOUNT">>

\* 22-07-2025;Pago;7;-24.000,00
semiData ==
  <<"2", "2", "-", "0", "7", "-", "2", "0", "2", "5", ";", "Pago", ";", "7", ";",
    "-", "2", "4", ".", "0", "0", "0", ",", "0", "0">>

commaHeader ==
  <<"RELEASE_DATE", ",", "TRANSACTION_TYPE", ",", "REFERENCE_ID", ",",
    "TRANSACTION_NET_AMOUNT">>

\* 22-07-2025,Pago,7,"-24.000,00"
commaData ==
  <<"2", "2", "-", "0", "7", "-", "2", "0", "2", "5", ",", "Pago", ",", "7", ",",
    "\"", "-", "2", "4", ".", "0", "0", "0", ",", "0", "0", "\"">>

\* "a;b;c;d;e",x,y,z
commaQuoted ==
  <<"\"", "a", ";", "b", ";", "c", ";", "d", ";", "e", "\"", ",", "x", ",", "y", ",", "z">>

\* a line of one field
titleMeta == <<"Reporte">>

RawLines ==
  {semiMeta, semiHeader, semiData, commaHeader, commaData, commaQuoted, titleMeta, <<>>}

InitRaw ==
  /\ store = {}
  /\ seq = 0
  /\ imp = [p \in Requests |-> importIdle]
  /\ calls = [p \in Requests |-> <<>>]
  /\ man = createIdle
  /\ nRequests = 0
  /\ nFaults = 0
  /\ csvIn = <<>>
  /\ csvOut = <<>>
  /\ xls = xlsIdle
  /\ \E k \in 0..MaxRawLines : \E content \in [1..k -> RawLines] :
       raw = [pc |-> "begin", content |-> content]
  /\ amt = amtIdle

\* MercadoPagoParser.Parse is called on the raw content
MercadoPagoParserParseContent ==
  /\ raw.pc = "begin"
  /\ raw' = rawParse(raw.content)
  /\ UNCHANGED <<store, seq, imp, calls, man, nRequests, nFaults, csvIn, csvOut, xls, amt>>

NextRaw == MercadoPagoParserParseContent

SpecRaw == InitRaw /\ [][NextRaw]_vars

RECURSIVE flatten(_)
\* the sequences of a sequence joined end to end
flatten(units) == IF units = <<>> THEN <<>> ELSE Head(units) \o flatten(Tail(units))

\* ------------------------------------------------------------------ the amount parsers alone

\* the greatest number of digits before the first thousands dot of an amount
\* text
MaxLeadDigits == 3

\* the leading digits of the amount texts
LeadDigits == UNION {[1..n -> {"0", "1", "9"}] : n \in 1..MaxLeadDigits}

\* the thousands groups of the amount texts, each ".ddd"; a text has at most
\* one
DotGroups == {<<".", "8", "0", "9">>, <<".", "0", "0", "0">>, <<".", "9", "9", "9">>}

\* the decimal parts of the amount texts, each ",dd"
DecimalParts == {<<",", a, b>> : a \in {"0", "5", "9"}, b \in {"0", "4", "9"}}

\* the currency marks in front of the amount of a cell of a sheet
CellMarks ==
  {<<>>, <<"$">>, <<"U", "$", "D">>, <<"U", "S", "$">>, <<"$", " ">>, <<" ", "U", "S", "D", " ">>}

\* parseArgentineAmount has been called on the text
amtParsed(text) == [pc |-> "done", text |-> text, out |-> parseArgentineAmount(text)]

\* parseSantanderAmount has been called on the text of a cell
amtCellParsed(text) ==
  [pc |-> "doneCell", text |-> text, out |-> parseSantanderAmount(text)]

InitAmount ==
  /\ store = {}
  /\ seq = 0
  /\ imp = [p \in Requests |-> importIdle]
  /\ calls = [p \in Requests |-> <<>>]
  /\ man = createIdle
  /\ nRequests = 0
  /\ nFaults = 0
  /\ csvIn = <<>>
  /\ csvOut = <<>>
  /\ xls = xlsIdle
  /\ raw = rawIdle
  /\ \E sign \in {<<>>, <<"-">>} : \E lead \in LeadDigits : \E k \in 0..1 :
       \E groups \in [1..k -> DotGroups] : \E dec \in DecimalParts :
         \/ amt = [pc |-> "begin", text |-> sign \o lead \o flatten(groups) \o dec]
         \/ \E mark \in CellMarks :
              amt = [pc |-> "beginCell",
                     text |-> mark \o sign \o lead \o flatten(groups) \o dec]

\* parseArgentineAmount is called on the text
ParseArgentineAmount ==
  /\ amt.pc = "begin"
  /\ amt' = amtParsed(amt.text)
  /\ UNCHANGED <<store, seq, imp, calls, man, nRequests, nFaults, csvIn, csvOut, xls, raw>>

\* parseSantanderAmount is called on the text of a cell
ParseSantanderAmount ==
  /\ amt.pc = "beginCell"
  /\ amt' = amtCellParsed(amt.text)
  /\ UNCHANGED <<store, seq, imp, calls, man, nRequests, nFaults, csvIn, csvOut, xls, raw>>

NextAmount == ParseArgentineAmount \/ ParseSantanderAmount

SpecAmount == InitAmount /\ [][NextAmount]_vars

\* ------------------------------------------------------------------ the spreadsheet parser alone

\* SantanderParser.Parse has read the rows of the sheet and starts its scan.
\* from[k] is the row (0-based) the k-th record appended so far came from.
xlsBegin(rows) ==
  [pc |-> "scan", rows |-> rows, i |-> 0, records |-> <<>>, from |-> <<>>,
   offset |-> 0, lastValidDate |-> ZeroTime, sectionRecords |-> <<>>, ret |-> <<>>]

\* xlsScanNext entering a section with the last valid date of the one before
xlsScanNextKeepsDate(s, headerRow) ==
  IF headerRow # 0 - 1
  THEN [s EXCEPT !.pc = "section", !.i = headerRow + 1,
                 !.offset = spOffset(s.rows, headerRow + 1),
                 !.sectionRecords = <<>>]
  ELSE [s EXCEPT !.i = s.i + 1]

\* xlsScanNext entering a section right after a marker that has no header row
xlsScanNextHeaderless(s, headerRow) ==
  IF headerRow # 0 - 1
  THEN [s EXCEPT !.pc = "section", !.i = headerRow + 1,
                 !.offset = spOffset(s.rows, headerRow + 1),
                 !.lastValidDate = ZeroTime, !.sectionRecords = <<>>]
  ELSE IF Len(s.rows[s.i + 1]) > 0 /\ sectionPatternMatch(s.rows[s.i + 1][1])
  THEN [s EXCEPT !.pc = "section", !.i = s.i + 1,
                 !.offset = spOffset(s.rows, s.i + 1),
                 !.lastValidDate = ZeroTime, !.sectionRecords = <<>>]
  ELSE [s EXCEPT !.i = s.i + 1]

\* xlsScanNext without the i++ at a row that starts no section
xlsScanNextStays(s, headerRow) ==
  IF headerRow # 0 - 1
  THEN [s EXCEPT !.pc = "section", !.i = headerRow + 1,
                 !.offset = spOffset(s.rows, headerRow + 1),
                 !.lastValidDate = ZeroTime, !.sectionRecords = <<>>]
  ELSE s

\* the scan at row s.i, headerRow being the header row found for this row
\* (-1: the row is no marker, or no header follows it): parseSection is
\* entered at the row after the header, or the scan moves to the next row
xlsScanNext(s, headerRow) ==
  IF headerRow # 0 - 1
  THEN [s EXCEPT !.pc = "section", !.i = headerRow + 1,
                 !.offset = spOffset(s.rows, headerRow + 1),
                 !.lastValidDate = ZeroTime, !.sectionRecords = <<>>]
  ELSE [s EXCEPT !.i = s.i + 1]

\* one iteration of the scan loop of Parse, or its end: the batch is returned
xlsScan(s) ==
  IF s.i >= Len(s.rows)
  THEN [s EXCEPT !.pc = "done",
                 !.ret = <<[Records |-> s.records, Provider |-> "santander",
                            Currency |-> CurrencyARS]>>]
  ELSE xlsScanNext(s, IF Len(s.rows[s.i + 1]) > 0 /\ sectionPatternMatch(s.rows[s.i + 1][1])
                      THEN spHeaderRow(s.rows, s.i) ELSE 0 - 1)

\* xlsSectionReturn putting the records of the section in front of the batch
xlsSectionReturnPrepends(s, nextRow) ==
  [s EXCEPT !.pc = "scan", !.i = nextRow, !.records = s.sectionRecords \o s.records,
            !.sectionRecords = <<>>]

\* parseSection returns (records, nextRow): Parse appends the records and
\* resumes its scan at nextRow
xlsSectionReturn(s, nextRow) ==
  [s EXCEPT !.pc = "scan", !.i = nextRow, !.records = s.records \o s.sectionRecords,
            !.sectionRecords = <<>>]

\* a data row of the section gave o: its records are appended and the loop
\* moves to the next row
xlsSectionRow(s, o) ==
  [s EXCEPT !.sectionRecords = s.sectionRecords \o o.records,
            !.from = s.from \o [k \in 1..Len(o.records) |-> s.i],
            !.lastValidDate = o.lastValidDate,
            !.i = s.i + 1]

\* one iteration of the loop of parseSection, or its end
xlsSection(s) ==
  IF s.i >= Len(s.rows) THEN xlsSectionReturn(s, Len(s.rows))
  ELSE IF Len(s.rows[s.i + 1]) = 0 \/ sectionPatternMatch(s.rows[s.i + 1][1])
  THEN xlsSectionReturn(s, s.i)
  ELSE xlsSectionRow(s, spRow(s.rows[s.i + 1], s.offset, s.lastValidDate, "acc1"))

\* the greatest number of blocks of rows of a sheet given to the parser alone
MaxUnits == 4

cardMarker == <<<<"Tarjeta de ", "Visa", " terminada en", " ", "1">>>>

pagoMarker == <<<<"PAGO DE TARJETA Y DEVOLUCIONES">>>>

fechaRow == <<<<"Fecha">>, <<"Descripcion">>>>

\* 01/06/2024, pesos only
rowDated ==
  <<<<"0", "1", "/", "0", "6", "/", "2", "0", "2", "4">>, <<"Super">>, <<>>, <<>>,
    <<"$", "5", ",", "0", "0">>>>

\* the day number 45657 (2024-12-31), pesos and dollars
rowSerial ==
  <<<<"4", "5", "6", "5", "7">>, <<"Nafta">>, <<"1", "/", "3">>, <<"0", "0", "1">>,
    <<"$", "3", ".", "0", "0", "0", ",", "0", "0">>, <<"U", "$", "D", "4", ",", "8", "2">>>>

\* no date, pesos not a number, dollars
rowCont ==
  <<<<>>, <<"Cuota">>, <<>>, <<>>, <<"n", "/", "a">>, <<"U", "$", "D", "4", ",", "8", "2">>>>

\* a date cell that is neither a date nor a number
rowBadDate ==
  <<<<"p", "r", "o", "n", "t", "o">>, <<"Ajuste">>, <<>>, <<>>, <<"$", "9", ",", "0", "0">>>>

\* cells of spaces only
rowBlank == <<<<" ">>, <<>>, <<" ", " ">>>>

\* a row of no cells
rowEmpty == <<>>

\* 29/02/2024, zero pesos, a refund in dollars
rowZero ==
  <<<<"2", "9", "/", "0", "2", "/", "2", "0", "2", "4">>, <<"Netflix">>, <<>>, <<>>,
    <<"$", "0", ",", "0", "0">>, <<"U", "S", "$", "-", "2", "9", ",", "3", "4">>>>

\* the blocks a sheet is made of: a card marker with its header row, a
\* marker alone, and single rows
SheetUnits ==
  {<<cardMarker, fechaRow>>, <<pagoMarker>>, <<rowDated>>, <<rowSerial>>, <<rowCont>>,
   <<rowBadDate>>, <<rowBlank>>, <<rowEmpty>>, <<rowZero>>}

\* the spreadsheet parser is given a sheet of at most MaxUnits blocks
InitXlsx ==
  /\ store = {}
  /\ seq = 0
  /\ imp = [p \in Requests |-> importIdle]
  /\ calls = [p \in Requests |-> <<>>]
  /\ man = createIdle
  /\ nRequests = 0
  /\ nFaults = 0
  /\ csvIn = <<>>
  /\ csvOut = <<>>
  /\ \E k \in 0..MaxUnits : \E units \in [1..k -> SheetUnits] : xls = xlsBegin(flatten(units))
  /\ raw = rawIdle
  /\ amt = amtIdle

\* one iteration of the scan loop of SantanderParser.Parse
SantanderParserScan ==
  /\ xls.pc = "scan"
  /\ xls' = xlsScan(xls)
  /\ UNCHANGED <<store, seq, imp, calls, man, nRequests, nFaults, csvIn, csvOut, raw, amt>>

\* one iteration of the loop of SantanderParser.parseSection
SantanderParserSection ==
  /\ xls.pc = "section"
  /\ xls' = xlsSection(xls)
  /\ UNCHANGED <<store, seq, imp, calls, man, nRequests, nFaults, csvIn, csvOut, raw, amt>>

NextXlsx == SantanderParserScan \/ SantanderParserSection

SpecXlsx == InitXlsx /\ [][NextXlsx]_vars

\* ------------------------------------------------------------------ either parser on dated rows

\* the greatest number of data lines of a CSV content, and of blocks of rows
\* after the first header row of a sheet, given to a parser here
MaxBatchRows == 3

\* the days the dated rows carry: month ends, year end, 29 February and the
\* days before it, and 28 February of a year that is no leap year
BatchDays ==
  {[y |-> 2025, m |-> 7, d |-> 22], [y |-> 2025, m |-> 4, d |-> 30],
   [y |-> 2025, m |-> 12, d |-> 31], [y |-> 2024, m |-> 2, d |-> 28],
   [y |-> 2024, m |-> 2, d |-> 29], [y |-> 2100, m |-> 2, d |-> 28]}

\* a day no calendar has
BatchNoDays == {[y |-> 2025, m |-> 2, d |-> 29]}

\* the n-th decimal digit
digitText(n) == <<"0", "1", "2", "3", "4", "5", "6", "7", "8", "9">>[n + 1]

\* day t written DD<sep>MM<sep>YYYY
dateText(t, sep) ==
  <<digitText(t.d \div 10), digitText(t.d % 10), sep,
    digitText(t.m \div 10), digitText(t.m % 10), sep,
    digitText(t.y \div 1000), digitText((t.y \div 100) % 10),
    digitText((t.y \div 10) % 10), digitText(t.y % 10)>>

\* the day numbers of the sheets, each with the day it counts from 1899-12-30
SerialCells ==
  {<<<<"4", "5", "6", "5", "7">>, [y |-> 2024, m |-> 12, d |-> 31]>>,
   <<<<"6", "0">>, [y |-> 1900, m |-> 2, d |-> 28]>>,
   <<<<"4", "5", "3", "5", "1", ".", "7", "5">>, [y |-> 2024, m |-> 2, d |-> 29]>>}

\* the CSV data lines: a day or a blank date cell, one of two descriptions
BatchLines ==
  {dataLine(header, dc, tx[1], tx[2], aNeg24000) :
     dc \in {dateText(t, "-") : t \in BatchDays \cup BatchNoDays} \cup {<<" ">>},
     tx \in {<<tPago, <<"7">>>>, <<tEnviada, ref119>>}}

\* a row of a sheet with the date cell dc, pesos and dollars
sheetRow(dc) ==
  <<dc, <<"Compra">>, <<>>, <<>>, <<"$", "5", ",", "0", "0">>,
    <<"U", "$", "D", "4", ",", "8", "2">>>>

\* the blocks of a sheet after its first header row: dated rows, a row
\* without date, a row with an unusable date, and the start of a section
BatchUnits ==
  {<<sheetRow(dateText(t, "/"))>> : t \in BatchDays \cup BatchNoDays}
  \cup {<<sheetRow(c[1])>> : c \in SerialCells}
  \cup {<<rowCont>>, <<rowBadDate>>, <<cardMarker, fechaRow>>}

\* a parser is given a CSV content of at most MaxBatchRows data lines, or a
\* sheet of a header row and at most MaxBatchRows blocks
InitBatch ==
  /\ store = {}
  /\ seq = 0
  /\ imp = [p \in Requests |-> importIdle]
  /\ calls = [p \in Requests |-> <<>>]
  /\ man = createIdle
  /\ nRequests = 0
  /\ nFaults = 0
  /\ csvOut = <<>>
  /\ raw = rawIdle
  /\ amt = amtIdle
  /\ \E k \in 0..MaxBatchRows :
       \/ \E lines \in [1..k -> BatchLines] :
            csvIn = <<csvContent(header, lines)>> /\ xls = xlsIdle
       \/ \E units \in [1..k -> BatchUnits] :
            csvIn = <<>> /\ xls = xlsBegin(<<cardMarker, fechaRow>> \o flatten(units))

NextBatch ==
  \/ csvIn # <<>> /\ MercadoPagoParserParse
  \/ SantanderParserScan
  \/ SantanderParserSection

SpecBatch == InitBatch /\ [][NextBatch]_vars

\* ------------------------------------------------------------------ a file imported twice

\* the files imported twice: those of Uploads, and a CSV file whose first
\* data line has the amount 0,50
AgainUploads ==
  Uploads \cup
  {[provider |-> "mercadopago", accountID |-> "acc1",
    file |-> [ok |-> TRUE,
              rows |-> csvContent(header, <<dataLine(header, d2207, tPago, <<"7">>, aHalf),
                                            dataLine(header, d3112, tPago, <<"7">>, a1809)>>)]]}

\* a fresh database behind a repository that never fails but for
\* uniqueness: the calls that may fail otherwise are used up
InitAgain ==
  /\ store = {}
  /\ seq = 0
  /\ imp = [p \in Requests |-> importIdle]
  /\ calls = [p \in Requests |-> <<>>]
  /\ man = createIdle
  /\ nRequests = 0
  /\ nFaults = MaxFaults
  /\ csvIn = <<>>
  /\ csvOut = <<>>
  /\ xls = xlsIdle
  /\ raw = rawIdle
  /\ amt = amtIdle

\* ImportRecords is called on a file
ImportRecordsFirst ==
  /\ imp["r1"].pc = "idle"
  /\ nRequests < MaxRequests
  /\ nRequests' = nRequests + 1
  /\ \E u \in AgainUploads : imp' = [imp EXCEPT !["r1"] = importBegin(u)]
  /\ UNCHANGED <<store, seq, calls, man, nFaults, csvIn, csvOut, xls, raw, amt>>

\* after that call returned, ImportRecords is called on the same file again
ImportRecordsAgain ==
  /\ imp["r1"].pc = "done"
  /\ imp["r2"].pc = "idle"
  /\ nRequests < MaxRequests
  /\ nRequests' = nRequests + 1
  /\ imp' = [imp EXCEPT !["r2"] = importBegin(imp["r1"].upload[1])]
  /\ UNCHANGED <<store, seq, calls, man, nFaults, csvIn, csvOut, xls, raw, amt>>

\* the two calls run their loops while CreateRecord requests are served; no
\* record is deleted
NextAgain ==
  \/ ImportRecordsFirst
  \/ ImportRecordsAgain
  \/ \E p \in Requests : ImportRecordsExists(p)
  \/ \E p \in Requests : ImportRecordsCreate(p)
  \/ CreateRecordBegin
  \/ CreateRecordExists
  \/ CreateRecordCreate

SpecAgain == InitAgain /\ [][NextAgain]_vars

\* ------------------------------------------------------------------ ImportRecords: claims

\* the batch the parser returns for each upload of the model
parsedBatch ==
  [u \in Uploads \cup AgainUploads |-> parserParse(u.provider, u.file, u.accountID).batch]

\* the batch the parser returns for the upload of request p
batchOf(p) == parsedBatch[imp[p].upload[1]]

\* the calls of request p to op, in order
callsTo(p, op) == SelectSeq(calls[p], LAMBDA c : c.op = op)

\* the calls of request p that returned an error, in order
failedCalls(p) == SelectSeq(calls[p], LAMBDA c : c.out \in {"error", "unique"})

\* the number of calls of request p to Create that inserted a row
createdCount(p) ==
  Cardinality({i \in 1..Len(calls[p]) : calls[p][i].op = "Create" /\ calls[p][i].out = "ok"})

\* the entry of Errors a failed call leaves
errorEntry(c) ==
  IF c.op = "Exists"
  THEN <<"Failed to check duplicate for record: ", "failed to check record existence: ",
         dbErrorText>>
  ELSE IF c.out = "unique" THEN <<"Failed to create record: ", duplicateRecordMsg>>
  ELSE <<"Failed to create record: ", "failed to create record: ", dbErrorText>>

\* C1: the result ImportRecords returns has importedRecords + duplicateRecords
\* + failedRecords = totalRecords = the number of records of the parsed
\* batch, whatever Exists and Create answered.
C1_CountsAddUp ==
  \A p \in Requests :
    imp[p].ret # <<>> =>
      LET r == imp[p].ret[1]
      IN /\ r.ImportedRecords + r.DuplicateRecords + r.FailedRecords = r.TotalRecords
         /\ batchOf(p) # <<>>
         /\ r.TotalRecords = Len(batchOf(p)[1].Records)

\* a returned result of a two-record batch with one duplicate and one failure
C1_Witness ==
  \E p \in Requests :
    /\ imp[p].ret # <<>>
    /\ imp[p].ret[1].TotalRecords = 2
    /\ imp[p].ret[1].DuplicateRecords = 1
    /\ imp[p].ret[1].FailedRecords = 1

\* C2: Exists is called once per record, in batch order; the calls for a
\* record start only when every earlier record is counted; and a returned
\* result means Exists was called for every record, failures included.
C2_ExistsOncePerRecordInOrder ==
  \A p \in Requests :
    LET ex == callsTo(p, "Exists")
        r == imp[p].result
    IN /\ \A i \in 1..Len(ex) : ex[i].k = i
       /\ \A i \in 1..(Len(calls[p]) - 1) : calls[p][i].k <= calls[p][i + 1].k
       /\ imp[p].pc = "exists" =>
            /\ r.ImportedRecords + r.DuplicateRecords + r.FailedRecords = imp[p].k - 1
            /\ Len(ex) = imp[p].k - 1
       /\ imp[p].pc = "create" => Len(ex) = imp[p].k
       /\ imp[p].ret # <<>> => Len(ex) = imp[p].ret[1].TotalRecords

\* a returned result whose first record failed and whose second record was
\* still checked
C2_Witness ==
  \E p \in Requests :
    /\ imp[p].ret # <<>>
    /\ \E i \in 1..Len(calls[p]) : calls[p][i].k = 1 /\ calls[p][i].out \in {"error", "unique"}
    /\ \E i \in 1..Len(calls[p]) : calls[p][i].k = 2 /\ calls[p][i].op = "Exists"

\* C3: Create is called at most once per record and only right after that
\* record's Exists returned false without error; the records counted as
\* imported are exactly those whose Create succeeded.
C3_CreateOnlyAfterExistsFalse ==
  \A p \in Requests :
    /\ \A i \in 1..Len(calls[p]) :
         calls[p][i].op = "Create" =>
           /\ i > 1
           /\ calls[p][i - 1].op = "Exists"
           /\ calls[p][i - 1].k = calls[p][i].k
           /\ calls[p][i - 1].out = "false"
    /\ \A i, j \in 1..Len(calls[p]) :
         calls[p][i].op = "Create" /\ calls[p][j].op = "Create" /\ i # j =>
           calls[p][i].k # calls[p][j].k
    /\ imp[p].result.ImportedRecords = createdCount(p)
    /\ \A i \in 1..Len(calls[p]) :
         calls[p][i].op = "Exists" /\ calls[p][i].out = "false" =>
           \/ i < Len(calls[p]) /\ calls[p][i + 1].op = "Create"
           \/ i = Len(calls[p]) /\ imp[p].pc = "create"

\* a returned result with one record found stored and one record inserted
C3_Witness ==
  \E p \in Requests :
    /\ imp[p].ret # <<>>
    /\ imp[p].ret[1].ImportedRecords = 1
    /\ \E i \in 1..Len(calls[p]) : calls[p][i].op = "Exists" /\ calls[p][i].out = "true"

\* C4: Errors holds one entry per failed record, in the batch order of the
\* failed records, and nothing for duplicate or imported records: its length
\* is failedRecords.
C4_ErrorsMatchFailures ==
  \A p \in Requests :
    LET r == imp[p].result
        f == failedCalls(p)
    IN /\ Len(r.Errors) = r.FailedRecords
       /\ Len(f) = r.FailedRecords
       /\ \A i \in 1..Len(f) : r.Errors[i] = errorEntry(f[i])
       /\ \A i \in 1..(Len(f) - 1) : f[i].k < f[i + 1].k
       /\ imp[p].ret # <<>> => imp[p].ret[1] = r

\* a returned result with two failed records of different kinds and no other
C4_Witness ==
  \E p \in Requests :
    /\ imp[p].ret # <<>>
    /\ Len(imp[p].ret[1].Errors) = 2
    /\ imp[p].ret[1].Errors[1] # imp[p].ret[1].Errors[2]

\* C5: table records never holds two rows with the same (date, description,
\* amount), whatever ImportRecords, CreateRecord and DeleteRecord requests
\* were served and however they interleaved.
C5_StoreTripleUnique ==
  \A r1, r2 \in store :
    sameTriple(r1, r2.Date, r2.Description, r2.Amount) => r1 = r2

\* the constraint has rejected an insertion of an import, a CreateRecord
\* request has inserted a row, and a row has been deleted
C5_Witness ==
  /\ \E p \in Requests : \E i \in 1..Len(calls[p]) : calls[p][i].out = "unique"
  /\ man.pc = "done" /\ man.err = <<>>
  /\ seq > Cardinality(store)

\* requests p and q are the only requests received so far, and both are
\* ImportRecords requests
onlyImports(p, q) ==
  /\ p # q
  /\ nRequests = 2
  /\ imp[p].pc # "idle" /\ imp[q].pc # "idle"

\* call i of request p and call j of request q are Create calls for records
\* with the same triple that either inserted or were rejected as duplicate
racedCreates(p, i, q, j) ==
  LET a == calls[p][i]
      b == calls[q][j]
      ra == imp[p].records[a.k]
      rb == imp[q].records[b.k]
  IN /\ a.op = "Create" /\ b.op = "Create"
     /\ a.out \in {"ok", "unique"} /\ b.out \in {"ok", "unique"}
     /\ sameTriple(ra, rb.Date, rb.Description, rb.Amount)

\* C6: when two concurrent ImportRecords requests both find a shared record
\* missing and both call Create for it, exactly one Create inserts, the table
\* holds one row for the triple, and the other request counts the record as
\* failed with the duplicate-record message and goes on with its batch.
C6_RaceLoserFailsAndContinues ==
  \A p, q \in Requests :
    onlyImports(p, q) =>
      \A i \in 1..Len(calls[p]) : \A j \in 1..Len(calls[q]) :
        racedCreates(p, i, q, j) =>
          /\ calls[p][i].out # calls[q][j].out
          /\ calls[q][j].out = "unique" =>
               LET rec == imp[q].records[calls[q][j].k]
                   ex == callsTo(q, "Exists")
               IN /\ Cardinality({row \in store :
                       sameTriple(row, rec.Date, rec.Description, rec.Amount)}) = 1
                  /\ imp[q].result.FailedRecords >= 1
                  /\ \E n \in 1..Len(imp[q].result.Errors) :
                       imp[q].result.Errors[n] =
                         <<"Failed to create record: ", duplicateRecordMsg>>
                  /\ imp[q].err = <<>>
                  /\ imp[q].pc = "done" =>
                       /\ imp[q].ret # <<>>
                       /\ Len(ex) = Len(imp[q].records)
                  /\ imp[q].pc # "done" => imp[q].k > calls[q][j].k

\* a race on the first record of two batches: the loser has returned a
\* result after checking its second record too
C6_Witness ==
  \E p, q \in Requests :
    /\ onlyImports(p, q)
    /\ imp[q].ret # <<>>
    /\ Len(imp[q].records) = 2
    /\ \E i \in 1..Len(calls[p]) : \E j \in 1..Len(calls[q]) :
         /\ racedCreates(p, i, q, j)
         /\ calls[q][j].out = "unique" /\ calls[q][j].k = 1
         /\ calls[p][i].out = "ok"
    /\ \E j \in 1..Len(calls[q]) : calls[q][j].op = "Exists" /\ calls[q][j].k = 2

\* the upload names no registered parser, or its parser returns an error
rejectedUpload(u) ==
  \/ u.provider \notin {"mercadopago", "santander"}
  \/ parserParse(u.provider, u.file, u.accountID).err # <<>>

\* a request with a rejected upload has returned an error and no result and
\* has made no repository call, and so has every request that returned an error
failedParseTouchedNothing ==
  \A p \in Requests :
    /\ imp[p].pc # "idle" /\ rejectedUpload(imp[p].upload[1]) =>
         /\ imp[p].pc = "done"
         /\ imp[p].err # <<>>
         /\ imp[p].ret = <<>>
         /\ calls[p] = <<>>
    /\ imp[p].err # <<>> => imp[p].ret = <<>> /\ calls[p] = <<>>

\* the step that serves a request with a rejected upload leaves the table
\* as it was
failedParseKeepsStore ==
  \A p \in Requests :
    imp[p].pc \in {"idle", "done"} /\ imp'[p] # imp[p] /\ imp'[p].pc # "idle"
    /\ rejectedUpload(imp'[p].upload[1])
      => store' = store /\ seq' = seq

\* C7: an ImportRecords request with an unknown provider or a file its parser
\* rejects returns an error and no result, has called neither Exists nor
\* Create, and leaves the table unchanged, valid rows before the offending
\* row included.
C7_FailedParseTouchesNothing ==
  [](failedParseTouchedNothing) /\ [][failedParseKeepsStore]_vars

\* a request failed on a CSV file whose first data row is valid and whose
\* second has a bad date, while the table holds a row
C7_Witness ==
  \E p \in Requests :
    /\ imp[p].pc = "done" /\ imp[p].err # <<>>
    /\ imp[p].upload[1].provider = "mercadopago"
    /\ store # {}

\* ------------------------------------------------------------------ CSV parser: claims

\* the header line and the data lines of the content given to the parser
csvHeader == csvIn[1][4]

csvData == SubSeq(csvIn[1], 5, Len(csvIn[1]))

\* the header line names the four required columns
csvColumnsFound ==
  \A name \in {"RELEASE_DATE", "TRANSACTION_TYPE", "REFERENCE_ID", "TRANSACTION_NET_AMOUNT"} :
    findColumn(csvHeader, <<name>>) # 0

\* the cell of data line row under the column called name
csvCell(row, name) == TrimSpace(row[findColumn(csvHeader, <<name>>)])

\* the loop skips the line as blank: first cell blank, or date cell blank
csvBlank(row) == TrimSpace(row[1]) = <<>> \/ csvCell(row, "RELEASE_DATE") = <<>>

\* the text has the shape DD-MM-YYYY
isDDMMYYYY(c) ==
  /\ Len(c) = 10
  /\ \A i \in {1, 2, 4, 5, 7, 8, 9, 10} : c[i] \in Digits
  /\ c[3] = "-" /\ c[6] = "-"

\* the text is a date of the calendar written DD-MM-YYYY
isCalendarDate(c) ==
  /\ isDDMMYYYY(c)
  /\ NatVal(SubSeq(c, 4, 5)) \in 1..12
  /\ NatVal(SubSeq(c, 1, 2)) \in 1..DaysIn(NatVal(SubSeq(c, 4, 5)), NatVal(SubSeq(c, 7, 10)))

\* the amount cell is empty or is not a number in Argentine notation
isNoAmount(c) ==
  \/ c = <<>>
  \/ \E i \in 1..Len(c) : c[i] \notin Digits \cup {".", ",", "-", " "}

\* a data line with a date and a description whose amount cell is empty or
\* not numeric
csvBadAmountLine(row) ==
  /\ ~csvBlank(row)
  /\ isCalendarDate(csvCell(row, "RELEASE_DATE"))
  /\ mpDescription(row[findColumn(csvHeader, <<"TRANSACTION_TYPE">>)],
                   row[findColumn(csvHeader, <<"REFERENCE_ID">>)])
       \notin {<<>>, <<" ", "-", " ">>}
  /\ isNoAmount(csvCell(row, "TRANSACTION_NET_AMOUNT"))

\* a data line that is not skipped as blank and whose date cell does not
\* have the shape DD-MM-YYYY
csvBadDateLine(row) == ~csvBlank(row) /\ ~isDDMMYYYY(csvCell(row, "RELEASE_DATE"))

\* the first data line with an unusable amount (1-based)
firstBadAmountLine ==
  CHOOSE k \in 1..Len(csvData) :
    csvBadAmountLine(csvData[k]) /\ \A j \in 1..(k - 1) : ~csvBadAmountLine(csvData[j])

\* the first data line with a date of the wrong shape (1-based)
firstBadDateLine ==
  CHOOSE k \in 1..Len(csvData) :
    csvBadDateLine(csvData[k]) /\ \A j \in 1..(k - 1) : ~csvBadDateLine(csvData[j])

\* C8 as stated: every record of a batch a parser returns has a non-zero
\* amount (here for the CSV parser: a data row whose amount parses to zero
\* emits no record).
C8_NoZeroAmountRecord ==
  csvOut # <<>> /\ csvOut[1].batch # <<>> =>
    \A i \in 1..Len(csvOut[1].batch[1].Records) : csvOut[1].batch[1].Records[i].Amount # 0

\* C9 as stated: a data row whose amount cell is empty or not numeric is
\* only skipped; when no row has a bad date, Parse succeeds and returns the
\* records of the other rows.
C9_BadAmountRowSkipped ==
  /\ csvOut # <<>> /\ csvColumnsFound
  /\ \E k \in 1..Len(csvData) : csvBadAmountLine(csvData[k])
  /\ \A k \in 1..Len(csvData) :
       csvBlank(csvData[k]) \/ isCalendarDate(csvCell(csvData[k], "RELEASE_DATE"))
  => csvOut[1].err = <<>> /\ csvOut[1].batch # <<>>

\* C9 as amended: a data row that has a date and a description and whose
\* amount cell is empty or not numeric makes the whole Parse fail: no batch
\* is returned, and the error names the first offending row, which is this
\* row unless an earlier row already failed.
C9_BadAmountFailsParse ==
  /\ csvOut # <<>> /\ csvColumnsFound
  /\ \E k \in 1..Len(csvData) : csvBadAmountLine(csvData[k])
  => LET k0 == firstBadAmountLine
         e == csvOut[1].err
     IN /\ csvOut[1].batch = <<>>
        /\ e # <<>>
        /\ "row" \in DOMAIN e[1]
        /\ e[1].row \in 5..(k0 + 4)
        /\ e[1].row = k0 + 4 => e[1].msg = "failed to parse amount in row"

\* Parse failed on the amount of the second data row, the first being valid
C9_Witness ==
  /\ csvOut # <<>> /\ csvColumnsFound
  /\ Len(csvData) = 2
  /\ csvBadAmountLine(csvData[2])
  /\ csvOut[1].err = <<[msg |-> "failed to parse amount in row", row |-> 6]>>

\* C10: a data row that is not skipped as blank and whose date cell does not
\* match DD-MM-YYYY makes the whole Parse fail: no batch is returned, the
\* records of the valid rows are dropped, and the error names the first
\* offending row, which is this row unless an earlier row already failed.
C10_BadDateFailsParse ==
  /\ csvOut # <<>> /\ csvColumnsFound
  /\ \E k \in 1..Len(csvData) : csvBadDateLine(csvData[k])
  => LET k0 == firstBadDateLine
         e == csvOut[1].err
     IN /\ csvOut[1].batch = <<>>
        /\ e # <<>>
        /\ "row" \in DOMAIN e[1]
        /\ e[1].row \in 5..(k0 + 4)
        /\ e[1].row = k0 + 4 => e[1].msg = "failed to parse date in row"

\* Parse failed on the date of the second data row, the first being a valid
\* row with a non-zero amount
C10_Witness ==
  /\ csvOut # <<>> /\ csvColumnsFound
  /\ Len(csvData) = 2
  /\ ~csvBlank(csvData[1]) /\ isCalendarDate(csvCell(csvData[1], "RELEASE_DATE"))
  /\ csvCell(csvData[1], "TRANSACTION_NET_AMOUNT") = aNeg24000
  /\ csvBadDateLine(csvData[2])
  /\ csvOut[1].err = <<[msg |-> "failed to parse date in row", row |-> 6]>>

\* ------------------------------------------------------------------ spreadsheet parser: claims

\* the row the parser is at
xlsRow == xls.rows[xls.i + 1]

\* parseSection is at a row that does not end the section
xlsAtSectionRow ==
  /\ xls.pc = "section"
  /\ xls.i < Len(xls.rows)
  /\ xlsRow \notin {rowEmpty, cardMarker, pagoMarker}

\* the text is DD/MM/YYYY
isSlashDate(c) ==
  /\ Len(c) = 10
  /\ \A i \in {1, 2, 4, 5, 7, 8, 9, 10} : c[i] \in Digits
  /\ c[3] = "/" /\ c[6] = "/"

\* the text is a number: digits, at most one point
isNumberText(c) ==
  /\ \E i \in 1..Len(c) : c[i] \in Digits
  /\ \A i \in 1..Len(c) : c[i] \in Digits \cup {"."}
  /\ Cardinality({i \in 1..Len(c) : c[i] = "."}) <= 1

\* the row has a date cell that is neither DD/MM/YYYY text nor a number
xlsBadDateRow(row) ==
  /\ ~isEmptyRow(row)
  /\ getCellValue(row, 0) # <<>>
  /\ ~isSlashDate(getCellValue(row, 0))
  /\ ~isNumberText(getCellValue(row, 0))

\* the step of parseSection over a row with an unusable date adds no record,
\* keeps the last valid date and goes on in the section at the next row
badDateRowSkipped ==
  xlsAtSectionRow /\ xlsBadDateRow(xlsRow) =>
    /\ xls'.sectionRecords = xls.sectionRecords
    /\ xls'.records = xls.records
    /\ xls'.lastValidDate = xls.lastValidDate
    /\ xls'.pc = "section"
    /\ xls'.i = xls.i + 1
    /\ xls'.ret = <<>>

\* C11: a data row of a section whose non-empty date cell is neither
\* DD/MM/YYYY text nor a number is skipped without error: it adds no record,
\* the remembered last valid date is unchanged, and the section goes on with
\* the next row.
C11_BadDateRowSkipped == [][badDateRowSkipped]_vars

\* Parse returned a batch where a row with an unusable date lies between a
\* dated row and a row without date that took the date of the dated row
C11_Witness ==
  /\ xls.pc = "done"
  /\ \E j \in 1..Len(xls.rows) :
       /\ xlsBadDateRow(xls.rows[j])
       /\ \E a, b \in 1..Len(xls.from) :
            /\ xls.from[a] + 1 = j - 1
            /\ xls.from[b] + 1 = j + 1
            /\ xls.rows[j + 1] = rowCont
            /\ xls.ret[1].Records[b].Date = xls.ret[1].Records[a].Date

\* row j (1-based) lies after the header row of a card section with no
\* marker row in between
xlsAfterHeader(j) ==
  \E h \in 2..(j - 1) :
    /\ xls.rows[h] = fechaRow
    /\ xls.rows[h - 1] = cardMarker
    /\ \A k \in (h + 1)..(j - 1) : xls.rows[k] \notin {cardMarker, pagoMarker}

\* row j (1-based) gave a record of the batch
xlsEmitted(j) == \E a \in 1..Len(xls.from) : xls.from[a] + 1 = j

\* C12 as stated: a blank row inside a section (no cells, or only empty or
\* whitespace cells) never ends the section, so a valid dated row that
\* follows the header of a section with no marker in between is a record of
\* the batch, blank rows in between or not.
C12_BlankRowKeepsSection ==
  xls.pc = "done" =>
    \A j \in 1..Len(xls.rows) :
      xls.rows[j] = rowDated /\ xlsAfterHeader(j) => xlsEmitted(j)

\* row j (1-based) lies after the header row h of a section whose marker is
\* row m, the header being the first row within four rows after the marker
\* that starts with a cell containing "fecha", with no marker row in h+1..j
xlsInsideSection(j) ==
  \E m \in 1..(j - 2) : \E h \in (m + 1)..(j - 1) :
    /\ xls.rows[m] \in {cardMarker, pagoMarker}
    /\ h <= m + 4
    /\ xls.rows[h] = fechaRow
    /\ \A k \in (m + 1)..(h - 1) : xls.rows[k] # fechaRow
    /\ \A k \in (h + 1)..j : xls.rows[k] \notin {cardMarker, pagoMarker}

\* C13: every record comes from a row strictly after the header row of a
\* detected section and before the marker that ends it or the end of the
\* sheet; rows before the first section, marker rows, header rows, rows
\* between a marker and its header and rows after a marker without header
\* give no record.
C13_RecordsOnlyFromSections ==
  xls.pc # "idle" =>
    \A a \in 1..Len(xls.from) :
      /\ xlsInsideSection(xls.from[a] + 1)
      /\ xls.rows[xls.from[a] + 1] # fechaRow

\* Parse returned the two records of the only row inside a section, the
\* dated row between the first marker and the header having given none
C13_Witness ==
  /\ xls.pc = "done"
  /\ xls.rows = <<pagoMarker, rowDated, cardMarker, fechaRow, rowSerial>>
  /\ xls.from = <<4, 4>>
  /\ Len(xls.ret[1].Records) = 2

\* the rows of the sheets that carry a date, and the day after that date
xlsDatedRows == {rowDated, rowSerial, rowZero}

xlsNextDay(row) ==
  CASE row = rowDated -> [y |-> 2024, m |-> 6, d |-> 2]
    [] row = rowSerial -> [y |-> 2025, m |-> 1, d |-> 1]
    [] row = rowZero -> [y |-> 2024, m |-> 3, d |-> 1]

\* the header row (1-based) of the section parseSection is in
xlsHeaderOfSection ==
  CHOOSE h \in 1..xls.i : xls.rows[h] = fechaRow /\ \A k \in (h + 1)..xls.i : xls.rows[k] # fechaRow

\* the dated rows (1-based) of the current section before the current row
xlsDatedBefore == {k \in (xlsHeaderOfSection + 1)..xls.i : xls.rows[k] \in xlsDatedRows}

\* the step of parseSection over a row without date: one record dated as the
\* most recent dated row of the section, or nothing when there is none
emptyDateRowStep ==
  xlsAtSectionRow /\ xlsRow = rowCont =>
    /\ xls'.pc = "section" /\ xls'.i = xls.i + 1
    /\ xls'.lastValidDate = xls.lastValidDate
    /\ IF xlsDatedBefore = {}
       THEN xls'.sectionRecords = xls.sectionRecords
       ELSE LET k == CHOOSE k \in xlsDatedBefore : \A l \in xlsDatedBefore : l <= k
            IN /\ Len(xls'.sectionRecords) = Len(xls.sectionRecords) + 1
               /\ SubSeq(xls'.sectionRecords, 1, Len(xls.sectionRecords)) = xls.sectionRecords
               /\ xls'.sectionRecords[Len(xls'.sectionRecords)].Date = xlsNextDay(xls.rows[k])

\* C14: a data row with an empty date cell takes the date of the most recent
\* row of the same section whose date parsed; when no row of the current
\* section has had a valid date yet, even if a row of an earlier section
\* had, the row is skipped and gives nothing.
C14_EmptyDateReusesSectionDate == [][emptyDateRowStep]_vars

\* Parse returned only the record of the dated row of the first section: the
\* row without date that opens the second section gave nothing
C14_Witness ==
  /\ xls.pc = "done"
  /\ xls.rows = <<cardMarker, fechaRow, rowDated, cardMarker, fechaRow, rowCont>>
  /\ xls.from = <<2>>

\* the amount cells of the sheets and what they hold, in hundredths; the
\* other cells hold no amount
xlsCellAmounts ==
  {<<<<"$", "5", ",", "0", "0">>, 500>>,
   <<<<"$", "9", ",", "0", "0">>, 900>>,
   <<<<"$", "3", ".", "0", "0", "0", ",", "0", "0">>, 300000>>,
   <<<<"$", "0", ",", "0", "0">>, 0>>,
   <<<<"U", "$", "D", "4", ",", "8", "2">>, 482>>,
   <<<<"U", "S", "$", "-", "2", "9", ",", "3", "4">>, 0 - 2934>>}

\* the amount and currency of the record the cell col (1-based) of row is
\* to give: none for a missing, empty or non-numeric cell and for zero
xlsCellRecord(row, col, currency) ==
  IF col > Len(row) THEN <<>>
  ELSE LET hit == {p \in xlsCellAmounts : p[1] = row[col] /\ p[2] # 0}
       IN IF hit = {} THEN <<>>
          ELSE <<[Amount |-> 0 - (CHOOSE p \in hit : TRUE)[2], Currency |-> currency]>>

\* the step of parseSection over a row with a usable date and a description
\* adds the record of the pesos cell, then the record of the dollars cell
currencyCellsStep ==
  /\ xlsAtSectionRow
  /\ xlsRow \in xlsDatedRows \/ (xlsRow = rowCont /\ xlsDatedBefore # {})
  => LET added == SubSeq(xls'.sectionRecords, Len(xls.sectionRecords) + 1,
                         Len(xls'.sectionRecords))
     IN /\ SubSeq(xls'.sectionRecords, 1, Len(xls.sectionRecords)) = xls.sectionRecords
        /\ [k \in 1..Len(added) |-> [Amount |-> added[k].Amount, Currency |-> added[k].Currency]]
             = xlsCellRecord(xlsRow, 5, "ARS") \o xlsCellRecord(xlsRow, 6, "USD")

\* C15: for a row with a usable date and a description the pesos and the
\* dollars cell are handled independently: a cell that is non-empty and
\* parses to a non-zero v gives one record of amount -v tagged with the
\* currency of the cell, any other cell gives nothing and does not affect
\* the other cell; the row gives zero, one or two records.
C15_CurrencyCellsIndependent == [][currencyCellsStep]_vars

\* Parse returned the records of a row with both cells (two records), of a
\* row with zero pesos (dollars only) and of a row with pesos only
C15_Witness ==
  /\ xls.pc = "done"
  /\ xls.rows = <<cardMarker, fechaRow, rowSerial, rowZero, rowDated>>
  /\ xls.from = <<2, 2, 3, 4>>
  /\ [k \in 1..4 |-> xls.ret[1].Records[k].Amount] = <<0 - 300000, 0 - 482, 2934, 0 - 500>>
  /\ [k \in 1..4 |-> xls.ret[1].Records[k].Currency] = <<"ARS", "USD", "USD", "ARS">>

\* the row at index i (0-based) ends a section: a marker or a row of no cells
xlsEndsSection(i) ==
  Len(xls.rows[i + 1]) = 0 \/ xls.rows[i + 1] \in {cardMarker, pagoMarker}

\* a step of the scan loop moves to the next row or enters a section at
\* least two rows further down; a step of the section loop moves to the next
\* row, or returns where it stands, at the end of the sheet or at the row
\* that ends the section, and the scan goes on from there
scanAdvances ==
  /\ xls.pc = "scan" /\ xls.i < Len(xls.rows) =>
       \/ xls'.pc = "scan" /\ xls'.i = xls.i + 1
       \/ /\ xls'.pc = "section" /\ xls'.i >= xls.i + 2
          /\ xls.rows[xls.i + 1] \in {cardMarker, pagoMarker}
  /\ xls.pc = "section" =>
       \/ xls'.pc = "section" /\ xls'.i = xls.i + 1 /\ xls.i < Len(xls.rows)
       \/ /\ xls'.pc = "scan" /\ xls'.i = xls.i
          /\ xls.i = Len(xls.rows) \/ xlsEndsSection(xls.i)
  /\ Len(xls'.from) >= Len(xls.from)
  /\ \A k \in (Len(xls.from) + 1)..Len(xls'.from) : xls'.from[k] = xls.i

\* the rows that gave records lie before the current row, further and
\* further down, and no row gave more than its two records
rowsConsumedOnce ==
  xls.pc # "idle" =>
    /\ xls.i <= Len(xls.rows)
    /\ \A k \in 1..Len(xls.from) : xls.from[k] < xls.i
    /\ \A k \in 1..(Len(xls.from) - 1) : xls.from[k] <= xls.from[k + 1]
    /\ \A k \in 1..(Len(xls.from) - 2) : xls.from[k] < xls.from[k + 2]

\* the greatest number of iterations the two loops have left in state s: two
\* for every row from the current one on, and the return of parseSection and
\* of Parse
xlsToDo(s) ==
  IF s.pc = "done" THEN 0
  ELSE 2 * (Len(s.rows) - s.i) + (IF s.pc = "section" THEN 2 ELSE 1)

\* the iteration the parser is about to make leaves fewer iterations to make
scanEnds ==
  /\ xlsToDo(xls) >= 0
  /\ xls.pc = "scan" => xlsToDo(xlsScan(xls)) < xlsToDo(xls)
  /\ xls.pc = "section" => xlsToDo(xlsSection(xls)) < xlsToDo(xls)

\* C28: the section scan ends on every finite grid and takes each row at
\* most once: the scan index grows on every iteration (parseSection returns
\* a row index greater than that of the marker that started it), the scan
\* resumes exactly at the row that ended the section, and no row is a data
\* row of two sections, so no row gives records twice. Every iteration lowers
\* a bound on the iterations left that is never negative, so the loops end.
C28_ScanTerminates ==
  [](rowsConsumedOnce /\ scanEnds) /\ [][scanAdvances]_vars

\* Parse returned after two sections, the second found from the marker that
\* ended the first, the dated row of the first having given its record once
C28_Witness ==
  /\ xls.pc = "done"
  /\ xls.rows = <<cardMarker, fechaRow, rowDated, cardMarker, fechaRow>>
  /\ xls.from = <<2>>
  /\ xls.i = 5

\* ------------------------------------------------------------------ CSV parser: more claims

\* a data line with all the columns, a date of the calendar written
\* DD-MM-YYYY, a description and an amount that parses to a non-zero number
csvGoodLine(row) ==
  /\ Len(row) = Len(csvHeader)
  /\ isCalendarDate(csvCell(row, "RELEASE_DATE"))
  /\ mpDescription(row[findColumn(csvHeader, <<"TRANSACTION_TYPE">>)],
                   row[findColumn(csvHeader, <<"REFERENCE_ID">>)])
       \notin {<<>>, <<" ", "-", " ">>}
  /\ parseArgentineAmount(csvCell(row, "TRANSACTION_NET_AMOUNT")).ok
  /\ parseArgentineAmount(csvCell(row, "TRANSACTION_NET_AMOUNT")).val # 0

\* C29: every data line of the CSV file with all the required columns, a
\* non-blank date cell written DD-MM-YYYY, a non-empty description and a
\* parseable non-zero amount gives exactly one record, wherever the date
\* column is in the header: a line is skipped as blank only when its date
\* cell or the whole line is blank, not because its first cell is blank. So
\* a file of such lines only is parsed, and a parsed file gave at least one
\* record for each of them.
C29_DatedRowsYieldRecords ==
  csvOut # <<>> /\ csvColumnsFound /\ csvData # <<>> =>
    /\ (\A k \in 1..Len(csvData) : csvGoodLine(csvData[k])) => csvOut[1].err = <<>>
    /\ csvOut[1].err = <<>> =>
         Len(csvOut[1].batch[1].Records)
           >= Cardinality({k \in 1..Len(csvData) : csvGoodLine(csvData[k])})


\* the transaction types of the inputs without their transfer prefix
csvCleanedType(typeCell) ==
  CASE typeCell = tEnviada -> <<"Area">>
    [] typeCell = tPago -> <<"Pago">>
    [] OTHER -> <<>>

\* the description the data line row is to get: type and reference joined
\* when both are there, else the one that is there
csvJoined(row) ==
  LET t == csvCleanedType(row[findColumn(csvHeader, <<"TRANSACTION_TYPE">>)])
      r == csvCell(row, "REFERENCE_ID")
  IN IF t # <<>> /\ r # <<>> THEN t \o <<" ", "-", " ">> \o r
     ELSE IF t # <<>> THEN t ELSE r

\* C16 as stated: the description of a record is "<cleaned type> - <reference
\* id>" when both are non-empty, else exactly the one that is non-empty,
\* with no separator added.
C16_DescriptionJoin ==
  csvOut # <<>> /\ csvOut[1].batch # <<>> =>
    \A i \in 1..Len(csvOut[1].batch[1].Records) :
      \E k \in 1..Len(csvData) :
        csvOut[1].batch[1].Records[i].Description = csvJoined(csvData[k])

\* ------------------------------------------------------------------ ImportRecords: more claims

\* request p checks a record whose date, description and amount are those of
\* a stored row, and the check does not fail: the record is counted as
\* duplicate, no Create is called for it and the table is unchanged
duplicateByTriple(p) ==
  /\ imp[p].pc = "exists"
  /\ imp'[p] # imp[p]
  /\ nFaults' = nFaults
  /\ \E row \in store :
       /\ row.Date = imp[p].records[imp[p].k].Date
       /\ row.Description = imp[p].records[imp[p].k].Description
       /\ row.Amount = imp[p].records[imp[p].k].Amount
  => /\ imp'[p].result.DuplicateRecords = imp[p].result.DuplicateRecords + 1
     /\ imp'[p].result.ImportedRecords = imp[p].result.ImportedRecords
     /\ imp'[p].result.FailedRecords = imp[p].result.FailedRecords
     /\ imp'[p].pc \in {"exists", "done"}
     /\ imp'[p].k = imp[p].k + 1
     /\ store' = store

\* C17: duplicate detection in ImportRecords uses only date, description and
\* amount: a record is counted as duplicate and not inserted when a stored
\* record, or one inserted earlier from the same batch, has the same three
\* values, whatever its currency and account.
C17_DuplicateByTripleOnly == [][\A p \in Requests : duplicateByTriple(p)]_vars

\* the sheet row with the same amount in pesos and dollars gave one row in
\* pesos and one duplicate, and a CSV record stored for account acc1 made
\* the upload of the same line for account acc2 a duplicate
C17_Witness ==
  \E p, q \in Requests :
    /\ imp[p].pc = "done" /\ imp[p].upload[1].provider = "santander"
    /\ Len(imp[p].records) = 2
    /\ imp[p].records[1].Currency = CurrencyARS /\ imp[p].records[2].Currency = CurrencyUSD
    /\ imp[p].result.ImportedRecords = 1 /\ imp[p].result.DuplicateRecords = 1
    /\ \A row \in store : row.Description = <<"Super">> => row.Currency = CurrencyARS
    /\ \E row \in store : row.Description = <<"Super">>
    /\ imp[q].pc = "done" /\ imp[q].upload[1].accountID = "acc2"
    /\ imp[q].upload[1].provider = "mercadopago"
    /\ imp[q].result.DuplicateRecords = 1 /\ imp[q].result.ImportedRecords = 0
    /\ \A row \in store : row.AccountID # "acc2" \/ row.Description = <<"Super">>

\* ------------------------------------------------------------------ CSV parser on a raw content: claims

\* how often character c occurs in the raw content
rawOccurrences(c) ==
  Cardinality({pos \in (1..Len(raw.content)) \X (1..30) :
                 pos[2] <= Len(raw.content[pos[1]]) /\ raw.content[pos[1]][pos[2]] = c})

\* C18: the CSV parser uses ';' as field separator if and only if the raw
\* content holds strictly more ';' than ',' characters, counted over the
\* whole content, metadata lines and quoted text included; on a tie or when
\* commas are more frequent it uses ','.
C18_SeparatorBySemicolonMajority ==
  raw.pc = "done" =>
    /\ raw.separator \in {";", ","}
    /\ raw.separator = ";" <=> rawOccurrences(";") > rawOccurrences(",")

\* Parse chose ',' for a content with as many ';' as ',', some of them in
\* quoted text
C18_Witness ==
  /\ raw.pc = "done"
  /\ rawOccurrences(";") = rawOccurrences(",")
  /\ rawOccurrences(";") > 0
  /\ \E n \in 1..Len(raw.content) : raw.content[n] = commaQuoted
  /\ raw.separator = ","

\* C19: a CSV input of fewer than five lines always makes the parser fail
\* with a structural error and return no batch, whatever the lines hold.
C19_ShortFileFails ==
  raw.pc = "done" /\ Len(raw.content) < 5 =>
    /\ raw.out.batch = <<>>
    /\ raw.out.err # <<>>
    /\ raw.out.err[1].msg \in {"invalid MercadoPago file: expected at least 5 rows",
                               "failed to parse CSV"}

\* Parse failed on three metadata lines and a header line, for want of a
\* fifth line
C19_Witness ==
  /\ raw.pc = "done"
  /\ raw.content = <<semiMeta, semiMeta, semiMeta, semiHeader>>
  /\ raw.out.batch = <<>>
  /\ raw.out.err = <<[msg |-> "invalid MercadoPago file: expected at least 5 rows"]>>

\* the raw content is three metadata lines, blank or of one or four fields,
\* then the header line and one data line
rawMetaThenHeader ==
  /\ Len(raw.content) = 5
  /\ \A n \in 1..3 : raw.content[n] \in {semiMeta, titleMeta, <<>>}
  /\ raw.content[4] = semiHeader
  /\ raw.content[5] = semiData

\* C24 as stated: lines 0-2 are skipped as metadata, line 3 is read as the
\* header and lines 4 onward as data whatever the metadata lines hold:
\* metadata lines that are blank or have another number of fields than the
\* header neither make Parse fail nor change the header line, so the data
\* line after the header gives its record.
C24_MetadataIgnored ==
  raw.pc = "done" /\ rawMetaThenHeader =>
    /\ raw.out.err = <<>>
    /\ raw.out.batch # <<>>
    /\ Len(raw.out.batch[1].Records) = 1

\* ------------------------------------------------------------------ amount parsing: claims

\* the integer part of the amount text: what precedes the decimal comma,
\* without sign and thousands dots
amtIntegerDigits ==
  SelectSeq(SubSeq(amt.text, 1, Len(amt.text) - 3), LAMBDA c : c \notin {"-", "."})

\* the value of the digit c
amtDigit(c) ==
  CASE c = "0" -> 0 [] c = "1" -> 1 [] c = "2" -> 2 [] c = "3" -> 3 [] c = "4" -> 4
    [] c = "5" -> 5 [] c = "6" -> 6 [] c = "7" -> 7 [] c = "8" -> 8 [] c = "9" -> 9

RECURSIVE amtValue(_, _)
\* the number the digits ds write after the number acc
amtValue(ds, acc) ==
  IF ds = <<>> THEN acc ELSE amtValue(Tail(ds), 10 * acc + amtDigit(Head(ds)))

\* C20: CSV-mode amount parsing of a text "D,dd", D an integer written with
\* optional thousands dots and an optional leading '-', gives exactly the
\* integer D with its sign whatever the decimals are: the decimal part is
\* dropped, never rounded.  Amounts are held in hundredths.
C20_DecimalsDropped ==
  amt.pc = "done" =>
    /\ amt.out.ok
    /\ amt.out.val = (IF amt.text[1] = "-" THEN 0 - 1 ELSE 1) * 100 * amtValue(amtIntegerDigits, 0)

\* "-1.809,99" gave -1809
C20_Witness ==
  /\ amt.pc = "done"
  /\ amt.text = <<"-", "1", ".", "8", "0", "9", ",", "9", "9">>
  /\ amt.out = [ok |-> TRUE, val |-> 0 - 180900]

\* the text of the cell without its currency marks and spaces
amtCellStripped == SelectSeq(amt.text, LAMBDA c : c \notin {"$", "U", "S", "D", " "})

\* the integer part and the two decimals the stripped text writes
amtCellUnits ==
  amtValue(SelectSeq(SubSeq(amtCellStripped, 1, Len(amtCellStripped) - 3),
                     LAMBDA c : c \notin {"-", "."}), 0)

amtCellCents ==
  amtValue(SubSeq(amtCellStripped, Len(amtCellStripped) - 1, Len(amtCellStripped)), 0)

\* C21: spreadsheet-mode amount parsing strips '$', 'U', 'S', 'D' and spaces
\* and, for a remaining text "[-]D,dd" with D digit groups separated by
\* thousands dots, gives the signed value with both decimals kept:
\* "US$-29,34" gives -29.34.  Amounts are held in hundredths.
C21_CellAmountExact ==
  amt.pc = "doneCell" =>
    /\ amt.out.ok
    /\ amt.out.val = (IF amtCellStripped[1] = "-" THEN 0 - 1 ELSE 1)
                       * (100 * amtCellUnits + amtCellCents)

\* "US$-19.809,54" gave -19809.54
C21_Witness ==
  /\ amt.pc = "doneCell"
  /\ amt.text = <<"U", "S", "$", "-", "1", "9", ".", "8", "0", "9", ",", "5", "4">>
  /\ amt.out = [ok |-> TRUE, val |-> 0 - 1980954]

\* C23: ImportRecords never changes the records of the parsed batch: while
\* and after it runs every record of the batch has the field values the
\* parser gave it, ID and CreatedAt included, whether the record was
\* inserted, counted as duplicate or failed.
C23_BatchNotMutated ==
  \A p \in Requests :
    imp[p].pc # "idle" /\ imp[p].records # <<>> =>
      /\ batchOf(p) # <<>>
      /\ imp[p].records = batchOf(p)[1].Records
      /\ \A k \in 1..Len(imp[p].records) :
           imp[p].records[k].ID = 0 /\ imp[p].records[k].CreatedAt = ZeroTime

\* a request returned after one record was inserted and one counted as
\* duplicate, another after one record failed in Create and one was inserted
C23_Witness ==
  \E p, q \in Requests :
    /\ imp[p].ret # <<>>
    /\ imp[p].ret[1].ImportedRecords = 1 /\ imp[p].ret[1].DuplicateRecords = 1
    /\ imp[q].ret # <<>>
    /\ imp[q].ret[1].ImportedRecords = 1 /\ imp[q].ret[1].FailedRecords = 1
    /\ \E i \in 1..Len(calls[q]) : calls[q][i].op = "Create" /\ calls[q][i].out # "ok"

\* ------------------------------------------------------------------ a file imported twice: claims

\* the second call has returned: nothing imported, nothing failed, every
\* record a duplicate, and no call to Create
secondImportAllDuplicates ==
  imp["r2"].pc = "done" /\ imp["r2"].err = <<>> =>
    /\ imp["r2"].ret # <<>>
    /\ imp["r2"].ret[1].ImportedRecords = 0
    /\ imp["r2"].ret[1].FailedRecords = 0
    /\ imp["r2"].ret[1].DuplicateRecords = imp["r2"].ret[1].TotalRecords
    /\ imp["r2"].ret[1].TotalRecords = Len(batchOf("r1")[1].Records)
    /\ \A i \in 1..Len(calls["r2"]) :
         calls["r2"][i].op = "Exists" /\ calls["r2"][i].out = "true"

\* no step of the second call changes the table
secondImportKeepsStore == imp'["r2"] # imp["r2"] => store' = store /\ seq' = seq

\* C26: with a repository that fails only for uniqueness and no delete in
\* between, importing the same parsed batch a second time inserts nothing:
\* the second result has importedRecords = 0, failedRecords = 0 and
\* duplicateRecords = totalRecords, and the second import leaves the table
\* as the first left it.
C26_SecondImportInsertsNothing ==
  [](secondImportAllDuplicates) /\ [][secondImportKeepsStore]_vars

\* the first call inserted both records of its file, the second counted
\* both as duplicates, and the table holds the two rows
C26_Witness ==
  /\ imp["r1"].ret # <<>> /\ imp["r1"].ret[1].ImportedRecords = 2
  /\ imp["r2"].ret # <<>> /\ imp["r2"].ret[1].DuplicateRecords = 2
  /\ Cardinality(store) = 2
  /\ man.pc = "idle"

\* C27 as stated: every record that reaches Create, through CreateRecord or
\* through ImportRecords, satisfies Record.Validate (date, description,
\* non-zero amount, currency ARS or USD); for an invalid record neither
\* Exists nor Create is called.
C27_OnlyValidRecordsReachSink ==
  /\ man.pc \in {"exists", "create"} => Validate(man.record[1]) = <<>>
  /\ \A p \in Requests : \A i \in 1..Len(calls[p]) :
       Validate(imp[p].records[calls[p][i].k]) = <<>>

\* ------------------------------------------------------------------ either parser: claims

\* the number of day t in the proleptic Gregorian calendar, 0001-01-01
\* being day 1
dayNumber(t) ==
  LET y == t.y - 1
      leap == t.y % 4 = 0 /\ (t.y % 100 # 0 \/ t.y % 400 = 0)
      before == <<0, 31, 59, 90, 120, 151, 181, 212, 243, 273, 304, 334>>[t.m]
  IN 365 * y + y \div 4 - y \div 100 + y \div 400
     + before + (IF leap /\ t.m > 2 THEN 1 ELSE 0) + t.d

\* the day a date cell of the inputs encodes, <<>> when it encodes none
cellDay(c) ==
  IF \E t \in BatchDays : c \in {dateText(t, "-"), dateText(t, "/")}
  THEN <<CHOOSE t \in BatchDays : c \in {dateText(t, "-"), dateText(t, "/")}>>
  ELSE IF \E p \in SerialCells : p[1] = c
  THEN <<(CHOOSE p \in SerialCells : p[1] = c)[2]>>
  ELSE <<>>

\* the data lines of the CSV content that have a date cell
csvDatedLines == SelectSeq(csvData, LAMBDA l : TrimSpace(l[1]) # <<>>)

\* every record of the CSV batch is dated one day after its data line
csvDatesShifted ==
  csvOut # <<>> /\ csvOut[1].batch # <<>> =>
    LET recs == csvOut[1].batch[1].Records
    IN /\ Len(recs) = Len(csvDatedLines)
       /\ \A k \in 1..Len(recs) :
            /\ cellDay(csvDatedLines[k][1]) # <<>>
            /\ dayNumber(recs[k].Date) = dayNumber(cellDay(csvDatedLines[k][1])[1]) + 1

\* the row (1-based) whose date the record of row j (1-based) is to carry:
\* row j when it has a date cell, else the nearest row before it in its
\* section whose date cell encodes a day
xlsDateRow(j) ==
  IF xls.rows[j][1] # <<>> THEN j
  ELSE CHOOSE h \in 1..(j - 1) :
         /\ cellDay(xls.rows[h][1]) # <<>>
         /\ \A k \in (h + 1)..(j - 1) :
              cellDay(xls.rows[k][1]) = <<>> /\ xls.rows[k] # fechaRow

\* every record of the sheet so far is dated one day after the date cell of
\* its row, or of the row it takes its date from
xlsDatesShifted ==
  xls.pc # "idle" =>
    LET recs == xls.records \o xls.sectionRecords
    IN /\ Len(recs) = Len(xls.from)
       /\ \A k \in 1..Len(recs) :
            LET c == xls.rows[xlsDateRow(xls.from[k] + 1)][1]
            IN /\ cellDay(c) # <<>>
               /\ dayNumber(recs[k].Date) = dayNumber(cellDay(c)[1]) + 1

\* C22: every record either parser emits is dated exactly one calendar day
\* after the date its source encodes (DD-MM-YYYY text, DD/MM/YYYY text or a
\* day number counted from 1899-12-30), across month and year ends; a row
\* of a sheet that reuses the last valid date carries that once-shifted
\* date, not shifted again.
C22_DateShiftedOnce == csvDatesShifted /\ xlsDatesShifted

\* the sheet gave 2024-03-01 for 29/02/2024, again for the row without date
\* after it, and 1900-03-01 for day number 60
C22_Witness ==
  /\ xls.pc = "done"
  /\ xls.rows = <<cardMarker, fechaRow,
                  sheetRow(dateText([y |-> 2024, m |-> 2, d |-> 29], "/")), rowCont,
                  sheetRow(<<"6", "0">>)>>
  /\ [k \in 1..Len(xls.ret[1].Records) |-> xls.ret[1].Records[k].Date]
       = <<[y |-> 2024, m |-> 3, d |-> 1], [y |-> 2024, m |-> 3, d |-> 1],
           [y |-> 2024, m |-> 3, d |-> 1], [y |-> 1900, m |-> 3, d |-> 1],
           [y |-> 1900, m |-> 3, d |-> 1]>>

\* the description the CSV data line l of the inputs is to give
csvLineText(l) ==
  IF l[2] = tPago THEN <<"Pago", " ", "-", " ", "7">>
  ELSE <<"Area", " ", "-", " ", "1", "1", "9">>

\* the records of the CSV batch are those of the dated data lines, in the
\* order of the lines
csvInLineOrder ==
  csvOut # <<>> /\ csvOut[1].batch # <<>> =>
    LET recs == csvOut[1].batch[1].Records
    IN /\ Len(recs) = Len(csvDatedLines)
       /\ \A k \in 1..Len(recs) :
            /\ recs[k].Description = csvLineText(csvDatedLines[k])
            /\ dayNumber(recs[k].Date) = dayNumber(cellDay(csvDatedLines[k][1])[1]) + 1

\* the records of the sheet so far come from rows further and further down,
\* each carries the description and the date of its row, and the two
\* records of one row are the one in pesos, then the one in dollars
xlsInRowOrder ==
  xls.pc # "idle" =>
    LET recs == xls.records \o xls.sectionRecords
    IN /\ Len(recs) = Len(xls.from)
       /\ \A k \in 1..Len(recs) :
            /\ recs[k].Description = xls.rows[xls.from[k] + 1][2]
            /\ dayNumber(recs[k].Date)
                 = dayNumber(cellDay(xls.rows[xlsDateRow(xls.from[k] + 1)][1])[1]) + 1
            /\ recs[k].Currency = CurrencyARS => recs[k].Amount = 0 - 500
            /\ recs[k].Currency = CurrencyUSD => recs[k].Amount = 0 - 482
       /\ \A k \in 1..(Len(recs) - 1) :
            /\ xls.from[k] <= xls.from[k + 1]
            /\ xls.from[k] = xls.from[k + 1] =>
                 recs[k].Currency = CurrencyARS /\ recs[k + 1].Currency = CurrencyUSD

\* C25: the records of a batch appear in source row order: for the CSV
\* parser in data-line order; for the spreadsheet parser sections from top
\* to bottom, rows in order within a section, and for a row that gives two
\* records the ARS record immediately followed by the USD record.
C25_RecordsInRowOrder == csvInLineOrder /\ xlsInRowOrder

\* the sheet gave, in this order, the two records of the row of the first
\* section and the two of the row of the second, dated a year earlier
C25_Witness ==
  /\ xls.pc = "done"
  /\ xls.rows = <<cardMarker, fechaRow,
                  sheetRow(dateText([y |-> 2025, m |-> 12, d |-> 31], "/")),
                  cardMarker, fechaRow,
                  sheetRow(dateText([y |-> 2024, m |-> 2, d |-> 28], "/"))>>
  /\ xls.from = <<2, 2, 5, 5>>
  /\ [k \in 1..4 |-> xls.ret[1].Records[k].Currency] = <<"ARS", "USD", "ARS", "USD">>
  /\ [k \in 1..4 |-> xls.ret[1].Records[k].Date.y] = <<2026, 2026, 2024, 2024>>

\* ------------------------------------------------------------------ CreateRecord: claims

\* CreateRecord was rejected because a row with the same date, description
\* and amount is stored: found by Exists, or by the uniqueness constraint at
\* the insertion
createRejectedAsDuplicate(s) ==
  s.pc = "done" /\ s.err # <<>> /\ s.err[Len(s.err)] = duplicateRecordMsg

\* the step that ends CreateRecord in such a rejection leaves the table as
\* it was
duplicateKeepsStore ==
  man'.pc = "done" /\ man.pc # "done" /\ createRejectedAsDuplicate(man')
    => store' = store /\ seq' = seq

\* C30: the handler of POST /api/records answers 409 Conflict whenever a
\* manual record is rejected because a record with the same date,
\* description and amount is stored, be it found by the Exists call of the
\* service or by the uniqueness constraint of the table after another
\* request inserted it between Exists and Create; the table is left as it
\* was in both cases.
C30_DuplicateAnswers409 ==
  /\ [](createRejectedAsDuplicate(man) => HandlerCreateRecord(man.err) = 409)
  /\ [][duplicateKeepsStore]_vars

====
